---- MODULE Spec2Model ----
(***************************************************************************)
(* A model of metarepo-cli's repository discovery and state-aggregation    *)
(* engine: the git package (IsGitRepo, GetRepoInfo, ScanForRepos) and the  *)
(* commands built on it.                                                   *)
(*                                                                         *)
(* Paths are sequences of entry names below the scanned root; <<>> is the  *)
(* root itself.  A string the external git binary prints is a sequence of  *)
(* tokens, each either a white-space character or a word without any.      *)
(***************************************************************************)
EXTENDS Integers, Sequences, FiniteSets, TLC

VARIABLES
    rootName,   \* base name of the absolute root path
    fsys,       \* the directory tree: path -> [kind, git, q]
    fault,      \* the one filesystem failure the environment injects
    absOk,      \* whether filepath.Abs(rootPath) succeeds
    pc,         \* position of the running command
    repos,      \* ScanForRepos: the returned slice
    err,        \* ScanForRepos: the returned error (TRUE = non-nil)
    visited,    \* history: the paths the walk callback was invoked on
    exit,       \* exit code of the command that ran (-1: none has ended)
    inspected,  \* GetRepoInfo: the returned error and record
    cmd,        \* the command line: "push", "pull", "clone", or "none"
    dryRun,     \* --dry-run
    skipConfig, \* --skip-config
    fromDevice, \* --from
    deviceOk,   \* whether device.GetCurrentDevice succeeds
    registry,   \* the device registry as loaded, and what became of it
    manifest,   \* the manifest as loaded
    midx,       \* pull: position in manifest.Repositories
    idx,        \* push, pull: position in repos
    counts,     \* the counters of the running command
    printed,    \* the lines the command has printed
    gitCalls,   \* history: the git clone, push, pull and rsync processes started
    earlier,    \* history: the invocations that ended before this one
    exclude,    \* Config.Repos.Exclude: the patterns of repos.exclude
    repoName,   \* IsExcluded: the name asked about
    excluded,   \* IsExcluded: whether it was called, and the returned value
    devicesFile,\* .metarepo/devices.yaml
    machine,    \* the serial number device.GetCurrentDevice reads
    configFile, \* whether .metarepo/config.yaml exists
    failure,    \* the error runInit or runDeviceRegister returned ("": nil)
    workspaceId,\* workspace.id of .metarepo/config.yaml ("": none to read)
    markers,    \* DetectRuntimes: the files of the project directory
    runtimes,   \* DetectRuntimes: whether it was called, and the returned slice
    procs       \* device register run by two processes at once: each one's state

cfgVars == <<exclude, repoName, excluded>>

regVars == <<devicesFile, machine, configFile, failure>>

detVars == <<markers, runtimes>>

extVars == <<workspaceId, detVars, procs>>

syncVars == <<cmd, dryRun, skipConfig, fromDevice, deviceOk, registry, manifest,
              midx, idx, counts, printed, gitCalls, earlier, cfgVars, regVars, extVars>>

vars == <<rootName, fsys, fault, absOk, pc, repos, err, visited, exit, inspected,
          syncVars>>

-----------------------------------------------------------------------------
(* Bounds of the model. *)

\* entries (files and directories, .git markers apart) below the root
MaxEntries == 2
\* depth of the deepest entry below the root
MaxDepth == 2

\* the longest pattern and name of those enumerated over a small alphabet
\* files of a project directory that DetectRuntimes is checked on
MaxMarkers == 3

MaxPattern == 3

-----------------------------------------------------------------------------
(* Names and strings. *)

\* Entry names of the model, in the byte order sort.Strings gives them
\* (readDirNames sorts the names of a directory before the walk visits them).
ByteOrder == <<".git", ".hid", ".ws", "a", "m", "vendor", "ws", "z">>

\* names an entry below the root may have (".git" is kept per directory)
EntryNames == {".hid", "a", "vendor", "z"}

\* names the root may have
RootNames == {"ws", ".ws", "vendor"}

\* strings.HasPrefix(name, ".") over the names of the model
HasDotPrefix(name) == name \in {".git", ".hid", ".ws", ".venv"}

skipDirs == <<"node_modules", "vendor", ".venv", "venv", "__pycache__", "dist", "build">>

InSkipDirs(name) == \E i \in 1..Len(skipDirs) : skipDirs[i] = name

Rank(name) == CHOOSE i \in 1..Len(ByteOrder) : ByteOrder[i] = name

\* the names of S as a sequence in byte order
RECURSIVE SortNames(_)
SortNames(S) ==
    IF S = {} THEN <<>>
    ELSE LET m == CHOOSE x \in S : \A y \in S : Rank(x) <= Rank(y)
         IN  <<m>> \o SortNames(S \ {m})

IsSpace(tok) == tok \in {" ", "\n", "\t"}

\* strings.TrimSpace on a token sequence
RECURSIVE TrimLeft(_)
TrimLeft(s) ==
    IF s # <<>> /\ IsSpace(Head(s)) THEN TrimLeft(Tail(s)) ELSE s

RECURSIVE TrimRight(_)
TrimRight(s) ==
    IF s # <<>> /\ IsSpace(s[Len(s)]) THEN TrimRight(SubSeq(s, 1, Len(s) - 1)) ELSE s

TrimSpace(s) == TrimRight(TrimLeft(s))

-----------------------------------------------------------------------------
(* The filesystem and the external git binary. *)

\* the seven queries GetRepoInfo makes, in the order it makes them
Queries == <<"url", "branch", "hash", "author", "date", "subject", "status">>

QuerySet == {Queries[i] : i \in 1..Len(Queries)}

Fail == [ok |-> FALSE, out |-> <<>>]

\* a query that failed after it wrote out to its standard output
FailWith(out) == [ok |-> FALSE, out |-> out]

Ok(out) == [ok |-> TRUE, out |-> out]

\* a commit date as `git log --format=%ci` prints it
GoodDate == "2024-05-06 07:08:09 +0200"

\* the zero time.Time
ZeroTime == "0001-01-01 00:00:00 +0000"

\* time.Parse("2006-01-02 15:04:05 -0700", s)
ParseTime(s) ==
    IF s = <<GoodDate>> THEN [ok |-> TRUE, t |-> GoodDate]
    ELSE [ok |-> FALSE, t |-> ZeroTime]

NoEntry == [kind |-> "absent", git |-> "none", q |-> [x \in QuerySet |-> Fail]]

\* os.Stat / os.Lstat of a path: the entry, or NoEntry when it does not exist.
\* The .git entry of a directory is kept in the directory's git field.
Stat(fs, path) ==
    IF path \in DOMAIN fs THEN fs[path]
    ELSE IF path # <<>> /\ path[Len(path)] = ".git"
              /\ SubSeq(path, 1, Len(path) - 1) \in DOMAIN fs
              /\ fs[SubSeq(path, 1, Len(path) - 1)].git # "none"
         THEN [NoEntry EXCEPT !.kind = fs[SubSeq(path, 1, Len(path) - 1)].git]
         ELSE NoEntry

\* F applied to x0, x0 being computed once, as a value, before F uses it
Once(F(_), x0) == CHOOSE r \in {F(x) : x \in {x0}} : TRUE

\* filepath.Base of the absolute path
Base(root, path) == IF path = <<>> THEN root ELSE path[Len(path)]

\* the world as one value, so that an operation can be evaluated on another one
World == [rootName |-> rootName, fs |-> fsys, fault |-> fault, absOk |-> absOk]

NoFault == [kind |-> "none", path |-> <<>>]

\* the world after the concurrent removal of path/.git, if that is the fault
Raced(w, path) ==
    IF w.fault = [kind |-> "gitgone", path |-> path]
    THEN [w EXCEPT !.fs = [w.fs EXCEPT ![path].git = "none"]]
    ELSE w

\* what exec.Cmd.Output gives for a query in a directory: whether git exited
\* with 0, and what it wrote to its standard output
GitOutput(w, path, query) == Stat(w.fs, path).q[query]

\* runGitCommand(repoPath, args...): the output, or "" and an error
runGitCommand(w, path, query) ==
    IF GitOutput(w, path, query).ok THEN GitOutput(w, path, query) ELSE Fail

IsGitRepo_AnyKind(w, path) == Stat(w.fs, Append(path, ".git")).kind # "absent"

IsGitRepo(w, path) == Stat(w.fs, Append(path, ".git")).kind = "dir"

ZeroCommit == [Hash |-> <<>>, Author |-> <<>>, Date |-> ZeroTime, Message |-> <<>>]

NilInfo == [Name |-> "", Path |-> <<"nil">>, AbsPath |-> <<"nil">>,
            URL |-> <<>>, Branch |-> <<>>,
            LastCommit |-> ZeroCommit, HasChanges |-> FALSE, IsDetached |-> FALSE,
            HasRemote |-> FALSE]

SetField_Untrimmed(info, query, out) ==
    CASE query = "url" ->
            [info EXCEPT !.URL = TrimSpace(out), !.HasRemote = TRUE]
      [] query = "branch" ->
            [info EXCEPT !.Branch = TrimSpace(out),
                         !.IsDetached = (TrimSpace(out) = <<"HEAD">>)]
      [] query = "hash" -> [info EXCEPT !.LastCommit.Hash = TrimSpace(out)]
      [] query = "author" -> [info EXCEPT !.LastCommit.Author = TrimSpace(out)]
      [] query = "date" ->
            IF ParseTime(TrimSpace(out)).ok
            THEN [info EXCEPT !.LastCommit.Date = ParseTime(TrimSpace(out)).t]
            ELSE info
      [] query = "subject" -> [info EXCEPT !.LastCommit.Message = TrimSpace(out)]
      [] query = "status" -> [info EXCEPT !.HasChanges = (out # <<>>)]

\* the assignments GetRepoInfo makes when a query succeeded with output out
SetField(info, query, out) ==
    CASE query = "url" ->
            [info EXCEPT !.URL = TrimSpace(out), !.HasRemote = TRUE]
      [] query = "branch" ->
            [info EXCEPT !.Branch = TrimSpace(out),
                         !.IsDetached = (TrimSpace(out) = <<"HEAD">>)]
      [] query = "hash" -> [info EXCEPT !.LastCommit.Hash = TrimSpace(out)]
      [] query = "author" -> [info EXCEPT !.LastCommit.Author = TrimSpace(out)]
      [] query = "date" ->
            IF ParseTime(TrimSpace(out)).ok
            THEN [info EXCEPT !.LastCommit.Date = ParseTime(TrimSpace(out)).t]
            ELSE info
      [] query = "subject" -> [info EXCEPT !.LastCommit.Message = TrimSpace(out)]
      [] query = "status" -> [info EXCEPT !.HasChanges = (TrimSpace(out) # <<>>)]

ApplyQuery_Unchecked(w, path, info, query) ==
    SetField(info, query, GitOutput(w, path, query).out)

\* `if x, err := runGitCommand(...); err == nil { ... }`: one query and its
\* assignments, skipped when the query failed
ApplyQuery(w, path, info, query) ==
    IF runGitCommand(w, path, query).ok
    THEN Once(LAMBDA o : SetField(info, query, o), runGitCommand(w, path, query).out)
    ELSE info

\* the queries of lines 281-318 one after the other, from the i-th on
RECURSIVE ApplyQueries(_, _, _, _)
ApplyQueries(w, path, info, i) ==
    IF i > Len(Queries) THEN info
    ELSE ApplyQueries(w, path, ApplyQuery(w, path, info, Queries[i]), i + 1)

GetRepoInfo(w, path) ==
    IF ~IsGitRepo(w, path) THEN [err |-> "not a git repository", info |-> NilInfo]
    ELSE IF ~w.absOk THEN [err |-> "abs", info |-> NilInfo]
    ELSE [err  |-> "nil",
          info |-> ApplyQueries(w, path,
                       [NilInfo EXCEPT !.Name = Base(w.rootName, path),
                                       !.Path = path,
                                       !.AbsPath = <<"/", w.rootName>> \o path],
                       1)]

-----------------------------------------------------------------------------
(* filepath.Walk and the callback ScanForRepos gives it. *)

\* os.Lstat as the walk calls it on an entry
Lstat(w, path) ==
    IF w.fault = [kind |-> "lstat", path |-> path] \/ Stat(w.fs, path).kind = "absent"
    THEN [err |-> TRUE, isDir |-> FALSE, name |-> Base(w.rootName, path)]
    ELSE [err |-> FALSE, isDir |-> Stat(w.fs, path).kind = "dir",
          name |-> Base(w.rootName, path)]

\* the names of the entries below path
Children(fs, path) ==
    {p[Len(p)] : p \in {x \in DOMAIN fs : Len(x) = Len(path) + 1
                                          /\ SubSeq(x, 1, Len(path)) = path}}
    \cup (IF path \in DOMAIN fs /\ fs[path].git # "none" THEN {".git"} ELSE {})

\* readDirNames(path): the sorted names, or an error
readDirNames(w, path) ==
    IF w.fault = [kind |-> "readdir", path |-> path]
    THEN [err |-> TRUE, names |-> <<>>]
    ELSE [err |-> FALSE, names |-> SortNames(Children(w.fs, path))]

\* what the callback has collected: the repositories, and the paths it saw
NoAcc == [repos |-> <<>>, visited |-> <<>>]

\* lines 342-348: the skip list is compared with the name of any entry
SkipTest(info) == InSkipDirs(info.name)

HiddenTest_None(info) == FALSE

\* lines 337-340
HiddenTest(info) == info.isDir /\ HasDotPrefix(info.name) /\ info.name # ".git"

ErrTest_Propagate(lerr) == FALSE

\* lines 333-335: an error of the walk is swallowed
ErrTest(lerr) == lerr

AfterRepo_Descend == "nil"

\* line 359: no descent into a directory that holds .git
AfterRepo == "SkipDir"

AppendRepo_Always(acc, r) == [acc EXCEPT !.repos = Append(@, r.info)]

\* lines 352-357: the record is appended unless GetRepoInfo failed
AppendRepo(acc, r) ==
    IF r.err = "nil" THEN [acc EXCEPT !.repos = Append(@, r.info)] ELSE acc

\* the body of the function literal, acc being what it has collected so far
\* with this path already noted as seen
WalkFnBody(w, path, info, lerr, acc) ==
    IF ErrTest(lerr) THEN [ret |-> "nil", acc |-> acc]
    ELSE IF lerr THEN [ret |-> "error", acc |-> acc]
    ELSE IF HiddenTest(info) THEN [ret |-> "SkipDir", acc |-> acc]
    ELSE IF SkipTest(info) THEN [ret |-> "SkipDir", acc |-> acc]
    ELSE IF info.isDir /\ IsGitRepo(w, path)
         THEN [ret |-> AfterRepo,
               acc |-> Once(LAMBDA r : AppendRepo(acc, r),
                            Once(LAMBDA v : GetRepoInfo(v, path), Raced(w, path)))]
    ELSE [ret |-> "nil", acc |-> acc]

\* the function literal of lines 332-363
WalkFn(w, path, info, lerr, acc) ==
    WalkFnBody(w, path, info, lerr, [acc EXCEPT !.visited = Append(@, path)])

\* what filepath.walk does for a directory once its names are read
walkDir(r1, rd) ==
    [r       |-> r1,
     descend |-> ~rd.err /\ r1.ret = "nil",
     names   |-> IF ~rd.err /\ r1.ret = "nil" THEN rd.names ELSE <<>>]

\* filepath.walk on one entry, up to its loop over the names: the callback's
\* answer, and the names to walk next when the entry is a directory to descend.
\* An entry that cannot be lstat'ed goes to the callback with the error.
walkEntry(w, path, info, acc) ==
    IF info.err
    THEN [r |-> WalkFn(w, path, info, TRUE, acc), descend |-> FALSE, names |-> <<>>]
    ELSE IF ~info.isDir
    THEN [r |-> WalkFn(w, path, info, FALSE, acc), descend |-> FALSE, names |-> <<>>]
    ELSE Once(LAMBDA r1 : walkDir(r1, readDirNames(w, path)),
              WalkFn(w, path, info, readDirNames(w, path).err, acc))

\* the frames of the walk after the first name of the top frame is taken
Rest(stack) == <<[Head(stack) EXCEPT !.names = Tail(@)]>> \o Tail(stack)

\* the path of the first name of the top frame
NextPath(stack) == Append(Head(stack).path, Head(Head(stack).names))

\* The recursion of filepath.walk, unfolded over the stack of its frames: a
\* frame is a directory being walked and the names its loop has not reached.
\*   - SkipDir from a directory ends that directory only;
\*   - SkipDir from a file ends the loop of the directory holding it;
\*   - any other error ends the walk.
\* The frames, what is collected, and the answer for an entry are each
\* computed once, as values, before they are used.
RECURSIVE walkFrames(_, _, _), walkTop(_, _, _), walkOn(_, _, _, _)
walkFrames(w, stack0, acc0) ==
    CHOOSE r \in {walkTop(w, stack, acc) : stack \in {stack0}, acc \in {acc0}} : TRUE

\* the walk from the top frame on
walkTop(w, stack, acc) ==
    IF stack = <<>> THEN [ret |-> "nil", acc |-> acc]
    ELSE IF Head(stack).names = <<>> THEN walkFrames(w, Tail(stack), acc)
    ELSE CHOOSE r \in {walkOn(w, stack, st, e) :
                          st \in {Lstat(w, NextPath(stack))},
                          e \in {walkEntry(w, NextPath(stack),
                                           Lstat(w, NextPath(stack)), acc)}} : TRUE

\* the walk after entry e, of status st, has been visited
walkOn(w, stack, st, e) ==
    IF e.r.ret \notin {"nil", "SkipDir"} THEN e.r
    ELSE IF e.r.ret = "SkipDir" /\ ~st.err /\ ~st.isDir
         THEN walkFrames(w, Tail(stack), e.r.acc)
    ELSE IF e.descend
         THEN walkFrames(w, <<[path |-> NextPath(stack), names |-> e.names]>>
                                \o Rest(stack), e.r.acc)
    ELSE walkFrames(w, Rest(stack), e.r.acc)

\* the walk below the root, when the root is a directory to descend
walkRoot(w, e) ==
    IF e.descend
    THEN walkFrames(w, <<[path |-> <<>>, names |-> e.names]>>, e.r.acc)
    ELSE e.r

\* filepath.Walk turns SkipDir into nil
NilForSkipDir(r) == IF r.ret = "SkipDir" THEN [r EXCEPT !.ret = "nil"] ELSE r

\* filepath.Walk(root, fn)
Walk(w) ==
    Once(NilForSkipDir,
         Once(LAMBDA e : walkRoot(w, e), walkEntry(w, <<>>, Lstat(w, <<>>), NoAcc)))

\* lines 365-369: what ScanForRepos returns after the walk
ScanResult(r) ==
    IF r.ret # "nil" THEN [repos |-> <<>>, err |-> TRUE, visited |-> r.acc.visited]
    ELSE [repos |-> r.acc.repos, err |-> FALSE, visited |-> r.acc.visited]

\* ScanForRepos(rootPath): the repositories, the error, and the paths visited
ScanForRepos(w) ==
    IF ~w.absOk THEN [repos |-> <<>>, err |-> TRUE, visited |-> <<>>]
    ELSE Once(ScanResult, Walk(w))

-----------------------------------------------------------------------------
(* The worlds a scan is checked on. *)

NoQ == [x \in QuerySet |-> Fail]

\* a clean repository on a branch, with a remote
Healthy ==
    [url     |-> Ok(<<"https://x/a.git", "\n">>),
     branch  |-> Ok(<<"main", "\n">>),
     hash    |-> Ok(<<"abc1234", "\n">>),
     author  |-> Ok(<<"Ann Lee", "\n">>),
     date    |-> Ok(<<GoodDate, "\n">>),
     subject |-> Ok(<<"fix", " ", "walk", "\n">>),
     status  |-> Ok(<<>>)]

\* no remote, uncommitted changes
NoRemoteDirty ==
    [Healthy EXCEPT !.url = Fail, !.status = Ok(<<" ", "M", " ", "f", "\n">>)]

\* detached HEAD
Detached == [Healthy EXCEPT !.branch = Ok(<<"HEAD", "\n">>)]

\* every query fails
Corrupt == NoQ

OddProfiles == {NoRemoteDirty, Detached, Corrupt}

FileEntry == [kind |-> "file", git |-> "none", q |-> NoQ]

DirEntry(g) == [kind |-> "dir", git |-> g, q |-> IF g = "dir" THEN Healthy ELSE NoQ]

Variants == {FileEntry} \cup {DirEntry(g) : g \in {"none", "file", "dir"}}

HasChild(S, p) ==
    \E x \in S : Len(x) = Len(p) + 1 /\ SubSeq(x, 1, Len(p)) = p

\* the prefix-closed sets of at most n paths below the root
RECURSIVE PathSets(_)
PathSets(n) ==
    IF n = 0 THEN {{}}
    ELSE LET P == PathSets(n - 1)
         IN  P \cup UNION {
                 {S \cup {Append(p, nm)} :
                      p \in {x \in S \cup {<<>>} : Len(x) < MaxDepth},
                      nm \in EntryNames} : S \in P}

\* the trees on a set of paths: whatever has an entry below it is a directory
TreesOn(S) ==
    {f \in [S \cup {<<>>} -> Variants] :
        \A p \in DOMAIN f : (p = <<>> \/ HasChild(S, p)) => f[p].kind = "dir"}

\* no root at all, and a root that is a regular file
NoRoot == [p \in {} |-> FileEntry]

FileRoot == [p \in {<<>>} |-> FileEntry]

Dirs(f) == {p \in DOMAIN f : f[p].kind = "dir"}

RepoDirs(f) == {p \in DOMAIN f : f[p].kind = "dir" /\ f[p].git = "dir"}

\* a tree with at most one thing wrong: a directory that cannot be read, an
\* entry that cannot be lstat'ed, a .git that goes away under the scan, or a
\* repository in an odd state
Anomalies(f) ==
    {[fs |-> f, fault |-> NoFault]}
    \cup {[fs |-> f, fault |-> [kind |-> "readdir", path |-> d]] : d \in Dirs(f)}
    \cup {[fs |-> f, fault |-> [kind |-> "lstat", path |-> p]] : p \in DOMAIN f}
    \cup {[fs |-> f, fault |-> [kind |-> "gitgone", path |-> d]] : d \in RepoDirs(f)}
    \cup {[fs |-> [f EXCEPT ![d].q = o], fault |-> NoFault] :
              d \in RepoDirs(f), o \in OddProfiles}

\* no call of GetRepoInfo has returned
NotInspected == [err |-> "none", info |-> NilInfo]

\* the counters of push and pull as declared
NoCounts ==
    [pushedCount |-> 0, pulledCount |-> 0, skippedCount |-> 0, errorCount |-> 0,
     newCount |-> 0, clonedCount |-> 0]

\* a nil *Manifest, and a nil *DeviceRegistry
NoManifest == [loaded |-> FALSE, Generated |-> 0, Repositories |-> <<>>]

NoRegistry == [loaded |-> FALSE, known |-> FALSE, LastSync |-> "never", saved |-> FALSE]

\* .metarepo/devices.yaml: not there, not parseable as YAML, or listing devices
MissingFile == [state |-> "missing", Devices |-> <<>>]

CorruptFile == [state |-> "corrupt", Devices |-> <<>>]

DeviceFile(ds) == [state |-> "ok", Devices |-> ds]

\* config.Device, by the fields the commands read and write
Device(serial, name, lastSync) == [Serial |-> serial, Name |-> name, LastSync |-> lastSync]

\* no configuration is loaded and IsExcluded is not called
NotAsked == [called |-> FALSE, value |-> FALSE]

ConfigIdle == exclude = <<>> /\ repoName = <<>> /\ excluded = NotAsked

\* no workspace is initialised
RegistryIdle ==
    devicesFile = MissingFile /\ machine = "S1" /\ configFile = FALSE /\ failure = ""

\* neither push nor pull is running
RunIdle ==
    /\ cmd = "none"
    /\ dryRun = FALSE
    /\ skipConfig = FALSE
    /\ fromDevice = ""
    /\ deviceOk = TRUE
    /\ registry = NoRegistry
    /\ manifest = NoManifest
    /\ midx = 1
    /\ idx = 1
    /\ counts = NoCounts
    /\ printed = <<>>
    /\ gitCalls = <<>>
    /\ earlier = <<>>

\* no runtime is being detected and no two processes race
DetectIdle == markers = <<>> /\ runtimes = [called |-> FALSE, value |-> <<>>]

ExtIdle == workspaceId = "" /\ DetectIdle /\ procs = <<>>

SyncIdle == RunIdle /\ ConfigIdle /\ RegistryIdle /\ ExtIdle

-----------------------------------------------------------------------------
(* The scan, and the command that lists its result. *)

\* The root is a directory named ws holding any tree with at most one thing
\* wrong; or the root has another name; or it is missing or a regular file;
\* or the root is the working directory and that one is gone, which is when
\* filepath.Abs fails.
InitScan ==
    /\ \/ \E S \in PathSets(MaxEntries) : \E f \in TreesOn(S) :
             \E a \in Anomalies(f) :
                /\ rootName = "ws"
                /\ fsys = a.fs
                /\ fault = a.fault
                /\ absOk = TRUE
       \/ \E S \in PathSets(MaxEntries) : \E f \in TreesOn(S) :
             /\ rootName \in RootNames \ {"ws"}
             /\ fsys = f
             /\ fault = NoFault
             /\ absOk = TRUE
       \/ /\ rootName \in RootNames
          /\ fsys \in {NoRoot, FileRoot}
          /\ fault = NoFault
          /\ absOk = TRUE
       \/ /\ rootName \in RootNames
          /\ fsys = NoRoot
          /\ fault = NoFault
          /\ absOk = FALSE
    /\ pc = "start"
    /\ repos = <<>>
    /\ err = FALSE
    /\ visited = <<>>
    /\ exit = -1
    /\ inspected = NotInspected
    /\ SyncIdle

\* a call of ScanForRepos on the root
ScanCall ==
    /\ pc = "start"
    /\ \E r \in {ScanForRepos(World)} :
          /\ repos' = r.repos
          /\ err' = r.err
          /\ visited' = r.visited
    /\ pc' = "scanned"
    /\ UNCHANGED <<rootName, fsys, fault, absOk, exit, inspected, syncVars>>

\* runRepoList: `repo list`
runRepoList ==
    /\ pc = "start"
    /\ \E r \in {ScanForRepos(World)} :
          /\ repos' = r.repos
          /\ err' = r.err
          /\ visited' = r.visited
          /\ exit' = IF r.err THEN 1 ELSE 0
    /\ pc' = "listed"
    /\ UNCHANGED <<rootName, fsys, fault, absOk, inspected, syncVars>>

NextScan == ScanCall \/ runRepoList

SpecScan == InitScan /\ [][NextScan]_vars

-----------------------------------------------------------------------------
(* A workspace of several candidates side by side, one of them in trouble. *)

\* names of the entries of the workspace; none is hidden or skip-listed
ListNames == {"a", "m", "z"}

\* a repository some of whose queries fail
FailingProfiles ==
    {[x \in QuerySet |-> IF x \in F THEN Fail ELSE Healthy[x]] :
         F \in SUBSET QuerySet \ {{}}}

\* what an entry of the workspace may be when nothing is wrong with it
SoundVariants == Variants \cup {[DirEntry("dir") EXCEPT !.q = Detached]}

\* the workspaces: a directory ws with entries of ListNames below it
FlatTrees ==
    UNION {{f \in [{<<>>} \cup {<<n>> : n \in S} -> SoundVariants] :
               f[<<>>] = DirEntry("none")} : S \in SUBSET ListNames}

\* a workspace with at most one candidate in trouble: its .git goes away
\* between IsGitRepo and GetRepoInfo, or some of its queries fail
Troubles(f) ==
    {[fs |-> f, fault |-> NoFault]}
    \cup {[fs |-> f, fault |-> [kind |-> "gitgone", path |-> d]] : d \in RepoDirs(f)}
    \cup {[fs |-> [f EXCEPT ![d].q = o], fault |-> NoFault] :
              d \in RepoDirs(f), o \in FailingProfiles}

InitList ==
    /\ \E f \in FlatTrees : \E t \in Troubles(f) :
          /\ fsys = t.fs
          /\ fault = t.fault
    /\ rootName = "ws"
    /\ absOk = TRUE
    /\ pc = "start"
    /\ repos = <<>>
    /\ err = FALSE
    /\ visited = <<>>
    /\ exit = -1
    /\ inspected = NotInspected
    /\ SyncIdle

SpecList == InitList /\ [][NextScan]_vars

-----------------------------------------------------------------------------
(* GetRepoInfo on one directory D, the root of the world, in any state. *)

\* what each query may do: fail (with or without output), or succeed
QueryOutcomes ==
    [url     : {Fail, Healthy.url},
     branch  : {Fail, FailWith(<<"HEAD", "\n">>), Healthy.branch, Detached.branch},
     hash    : {Fail, Healthy.hash},
     author  : {Fail, Healthy.author},
     date    : {Fail, Healthy.date, Ok(<<"yesterday", "\n">>)},
     subject : {Fail, Healthy.subject},
     status  : {Fail, Ok(<<>>), Ok(<<"\n">>), NoRemoteDirty.status}]

\* D with its .git entry, the answers git gives in it, and what else it holds
InspectTrees ==
    {[p \in {<<>>} \cup S |->
         IF p = <<>> THEN [kind |-> "dir", git |-> g, q |-> o] ELSE other] :
       g \in {"none", "file", "dir"}, o \in QueryOutcomes,
       S \in {{}, {<<"a">>}}, other \in {FileEntry, DirEntry("dir")}}

InitInspect ==
    /\ rootName \in RootNames
    /\ \/ fsys \in InspectTrees /\ absOk = TRUE
       \/ fsys = FileRoot /\ absOk = TRUE
       \/ fsys = NoRoot /\ absOk \in BOOLEAN
    /\ fault = NoFault
    /\ pc = "start"
    /\ repos = <<>>
    /\ err = FALSE
    /\ visited = <<>>
    /\ exit = -1
    /\ inspected = NotInspected
    /\ SyncIdle

\* a call of GetRepoInfo on D
GetRepoInfoCall ==
    /\ pc = "start"
    /\ inspected' = GetRepoInfo(World, <<>>)
    /\ pc' = "inspected"
    /\ UNCHANGED <<rootName, fsys, fault, absOk, repos, err, visited, exit, syncVars>>

NextInspect == GetRepoInfoCall

SpecInspect == InitInspect /\ [][NextInspect]_vars

-----------------------------------------------------------------------------
(* push and pull over a workspace, one step of the handler at a time. *)

\* a repository with a remote and uncommitted changes
Dirty == [Healthy EXCEPT !.status = NoRemoteDirty.status]

\* no remote and a detached HEAD
NoRemoteDetached == [NoRemoteDirty EXCEPT !.branch = Detached.branch]

SyncProfiles == {Healthy, Dirty, NoRemoteDirty, Detached, NoRemoteDetached}

SyncVariants == {FileEntry} \cup {[DirEntry("dir") EXCEPT !.q = o] : o \in SyncProfiles}

\* the working directory with entries of ListNames below it, repositories or
\* regular files; or the working directory being a repository itself
SyncTrees ==
    UNION {[{<<n>> : n \in S} -> SyncVariants] : S \in SUBSET ListNames}

WithRoot(f, root) == [p \in {<<>>} \cup DOMAIN f |-> IF p = <<>> THEN root ELSE f[p]]

\* .metarepo/devices.yaml unreadable, missing or without this device, and
\* with this device
Registries ==
    {NoRegistry,
     [loaded |-> TRUE, known |-> FALSE, LastSync |-> "never", saved |-> FALSE],
     [loaded |-> TRUE, known |-> TRUE, LastSync |-> "before", saved |-> FALSE]}

\* a devices.yaml that loads as the registry does
FileFor(reg) ==
    IF ~reg.loaded THEN CorruptFile
    ELSE IF ~reg.known THEN MissingFile
    ELSE DeviceFile(<<Device("S1", "host", reg.LastSync)>>)

Entry(n, path, url) == [Name |-> n, Path |-> path, URL |-> url, Branch |-> "main"]

\* .metarepo/manifest.yaml: missing, empty, or listing repositories
Manifests ==
    {NoManifest} \cup
    {[loaded |-> TRUE, Generated |-> 0, Repositories |-> r] :
        r \in {<<>>,
               <<Entry("m", "", "https://x/m.git")>>,
               <<Entry("m", "", "")>>,
               <<Entry("a", "a", "https://x/a.git"), Entry("m", "z", "https://x/z.git")>>}}

\* one printed line about a repository
Line(tag, name, note) == [tag |-> tag, name |-> name, note |-> note, counts |-> <<>>]

\* printed lines that carry numbers: each number with its label
Numbers(tag, nums) == [tag |-> tag, name |-> "", note |-> "", counts |-> nums]

\* `if errorCount > 0 { fmt.Printf("  Errors:  %d\n", errorCount) }`
ErrorsLine(c) == IF c.errorCount > 0 THEN <<<<"Errors", c.errorCount>>>> ELSE <<>>

\* the summary each command prints
Summary(c, label, n) ==
    Numbers("Summary", <<<<label, n>>, <<"Skipped", c.skippedCount>>>> \o ErrorsLine(c))

\* a command starts in a workspace whose repos.exclude is one of the lists
InitSyncOver(lists) ==
    /\ cmd \in {"push", "pull", "clone"}
    /\ dryRun \in BOOLEAN
    /\ skipConfig \in (IF cmd = "clone" THEN {FALSE} ELSE BOOLEAN)
    /\ fromDevice \in (IF cmd = "pull" THEN {"", "laptop"} ELSE {""})
    /\ registry \in (IF cmd = "clone" THEN {NoRegistry} ELSE Registries)
    /\ manifest \in (IF cmd = "push" THEN {NoManifest} ELSE Manifests)
    /\ \/ /\ \E f \in SyncTrees : fsys = WithRoot(f, DirEntry("none"))
          /\ absOk = TRUE
          /\ deviceOk = TRUE
       \/ /\ \E o \in SyncProfiles : fsys = WithRoot(NoRoot, [DirEntry("dir") EXCEPT !.q = o])
          /\ absOk = TRUE
          /\ deviceOk \in BOOLEAN
       \/ /\ fsys = NoRoot
          /\ absOk = FALSE
          /\ deviceOk = TRUE
          /\ manifest = NoManifest
    /\ rootName = "ws"
    /\ fault = NoFault
    /\ pc = "start"
    /\ repos = <<>>
    /\ err = FALSE
    /\ visited = <<>>
    /\ exit = -1
    /\ inspected = NotInspected
    /\ midx = 1
    /\ idx = 1
    /\ counts = NoCounts
    /\ printed = <<>>
    /\ gitCalls = <<>>
    /\ earlier = <<>>
    /\ exclude \in lists
    /\ repoName = <<>>
    /\ excluded = NotAsked
    /\ devicesFile = FileFor(registry)
    /\ machine = "S1"
    /\ configFile = TRUE
    /\ failure = ""
    /\ workspaceId = "u1"
    /\ DetectIdle
    /\ procs = <<>>

InitSync == InitSyncOver({<<>>})

Begin_Unchecked ==
    /\ pc = "start"
    /\ cmd \in {"push", "pull"}
    /\ exit' = exit
    /\ pc' = IF cmd = "pull" /\ manifest.loaded /\ Len(manifest.Repositories) > 0
             THEN "cloning" ELSE "scan"
    /\ UNCHANGED <<rootName, fsys, fault, absOk, repos, err, visited, inspected, syncVars>>

\* push.go 41-61, pull.go 43-69: the device, the registry, the manifest
Begin ==
    /\ pc = "start"
    /\ cmd \in {"push", "pull"}
    /\ IF ~deviceOk
       THEN pc' = "done" /\ exit' = 1
       ELSE /\ exit' = exit
            /\ pc' = IF cmd = "pull" /\ manifest.loaded
                         /\ Len(manifest.Repositories) > 0
                      THEN "cloning" ELSE "scan"
    /\ UNCHANGED <<rootName, fsys, fault, absOk, repos, err, visited, inspected, syncVars>>

\* filepath.Join of the names of a path below the working directory
RECURSIVE JoinPath(_)
JoinPath(path) ==
    IF Len(path) = 1 THEN path[1] ELSE path[1] \o "/" \o JoinPath(Tail(path))

\* a relative path as the walk gives it and the manifest keeps it
ManifestPath(path) == IF path = <<>> THEN "." ELSE JoinPath(path)

\* the names of a relative path: those of the entry of the tree it names,
\* or, naming none, the one name it is
SplitPath(fs, s) ==
    IF \E p \in DOMAIN fs : ManifestPath(p) = s
    THEN CHOOSE p \in DOMAIN fs : ManifestPath(p) = s
    ELSE <<s>>

\* the path a manifest entry is cloned to
ClonePath(e) == SplitPath(fsys, IF e.Path = "" THEN e.Name ELSE e.Path)

\* what git clone may leave checked out: a branch, or a detached HEAD when
\* that is what the remote has; origin is set either way
ClonedProfiles(ok) == IF ok THEN {Healthy, Detached} ELSE {NoQ}

\* the tree after git clone has made a repository at path
Cloned(fs, path, q) ==
    [p \in DOMAIN fs \cup {path} |->
        IF p = path THEN [DirEntry("dir") EXCEPT !.q = q] ELSE fs[p]]

\* git clone into a path that is there already fails (a regular file, a
\* directory with something in it)
CloneResults(path) == IF Stat(fsys, path).kind = "absent" THEN BOOLEAN ELSE {FALSE}

\* pull.go 100-105: what is printed after the last entry
ClonedLine(c) ==
    IF c.newCount > 0 THEN Numbers("Cloned", <<<<"Cloned", c.newCount>>>>)
    ELSE Numbers("No new repositories to clone", <<>>)

Closing(last, c) == IF last THEN <<ClonedLine(c)>> ELSE <<>>

\* pull.go 74-105: one entry of the manifest, and the closing line after the
\* last one; ok is whether git clone succeeds
CloneEntry(e, ok, q, last) ==
    IF Stat(fsys, ClonePath(e)).kind # "absent" \/ e.URL = ""
    THEN /\ printed' = printed \o Closing(last, counts)
         /\ UNCHANGED <<fsys, counts, gitCalls>>
    ELSE IF dryRun
    THEN /\ counts' = [counts EXCEPT !.newCount = @ + 1]
         /\ printed' = Append(printed, Line("DRY", e.Name, "Would clone"))
                           \o Closing(last, counts')
         /\ UNCHANGED <<fsys, gitCalls>>
    ELSE /\ gitCalls' = Append(gitCalls, [op |-> "clone", dir |-> ClonePath(e)])
         /\ counts' = IF ok THEN [counts EXCEPT !.newCount = @ + 1] ELSE counts
         /\ printed' = Append(printed, Line("CLONE", e.Name, IF ok THEN "OK" ELSE "FAILED"))
                           \o Closing(last, counts')
         /\ fsys' = IF ok THEN Cloned(fsys, ClonePath(e), q) ELSE fsys

AfterEntry_FirstOnly(i, n) == "scan"

\* pull.go 73, 109: the loop goes through every entry, and then the scan
AfterEntry(i, n) == IF i = n THEN "scan" ELSE "cloning"

\* pull.go 70-106: one turn of the loop over manifest.Repositories
CloneStep ==
    /\ pc = "cloning"
    /\ \E ok \in CloneResults(ClonePath(manifest.Repositories[midx])) :
          \E q \in ClonedProfiles(ok) :
             CloneEntry(manifest.Repositories[midx], ok, q,
                        midx = Len(manifest.Repositories))
    /\ midx' = midx + 1
    /\ pc' = AfterEntry(midx, Len(manifest.Repositories))
    /\ UNCHANGED <<cfgVars, extVars, regVars, earlier, rootName, fault, absOk, repos, err, visited, exit, inspected,
                   cmd, dryRun, skipConfig, fromDevice, deviceOk, registry,
                   manifest, idx>>

\* push.go 63-73, pull.go 109-119: the scan of the working directory
Scan ==
    /\ pc = "scan"
    /\ \E r \in {ScanForRepos(World)} :
          /\ repos' = r.repos
          /\ err' = r.err
          /\ visited' = r.visited
          /\ exit' = IF r.err THEN 1 ELSE exit
          /\ pc' = IF r.err THEN "done"
                   ELSE IF Len(r.repos) = 0 THEN "finish" ELSE "loop"
    /\ UNCHANGED <<rootName, fsys, fault, absOk, inspected, syncVars>>

RepoOutcome_DetachedFirst(repo, dry) ==
    IF repo.IsDetached THEN "detached HEAD"
    ELSE IF ~repo.HasRemote THEN "no remote"
    ELSE IF dry THEN "dry" ELSE "git"

\* push.go 77-90, pull.go 123-136: what the loop does with a repository
RepoOutcome(repo, dry) ==
    IF ~repo.HasRemote THEN "no remote"
    ELSE IF repo.IsDetached THEN "detached HEAD"
    ELSE IF dry THEN "dry" ELSE "git"

CountFailure_Dropped(c) == c

\* errorCount++
CountFailure(c) == [c EXCEPT !.errorCount = @ + 1]

\* skippedCount++ under [SKIP]
Skip(repo, reason) ==
    /\ printed' = Append(printed, Line("SKIP", repo.Name, reason))
    /\ counts' = [counts EXCEPT !.skippedCount = @ + 1]
    /\ gitCalls' = gitCalls

\* push.go 76-107: the body of the loop; ok is whether git push succeeds
PushRepo(repo, outcome, ok) ==
    IF outcome \in {"no remote", "detached HEAD"} THEN Skip(repo, outcome)
    ELSE IF outcome = "dry"
    THEN /\ printed' = Append(printed, Line("DRY", repo.Name,
                           IF repo.HasChanges THEN "would push" ELSE "no changes"))
         /\ UNCHANGED <<counts, gitCalls>>
    ELSE /\ gitCalls' = Append(gitCalls, [op |-> "push", dir |-> repo.AbsPath])
         /\ printed' = Append(printed, Line("PUSH", repo.Name, IF ok THEN "OK" ELSE "FAILED"))
         /\ counts' = IF ok THEN [counts EXCEPT !.pushedCount = @ + 1]
                      ELSE CountFailure(counts)

\* pull.go 122-149: the body of the loop; ok is whether git pull succeeds
PullRepo(repo, outcome, ok) ==
    IF outcome \in {"no remote", "detached HEAD"} THEN Skip(repo, outcome)
    ELSE IF outcome = "dry"
    THEN /\ printed' = Append(printed, Line("DRY", repo.Name, "would pull"))
         /\ UNCHANGED <<counts, gitCalls>>
    ELSE /\ gitCalls' = Append(gitCalls, [op |-> "pull", dir |-> repo.AbsPath])
         /\ printed' = Append(printed, Line("PULL", repo.Name, IF ok THEN "OK" ELSE "FAILED"))
         /\ counts' = IF ok THEN [counts EXCEPT !.pulledCount = @ + 1]
                      ELSE CountFailure(counts)

\* what a turn of either loop leaves alone
LoopFrame ==
    UNCHANGED <<cfgVars, extVars, regVars, earlier, rootName, fsys, fault, absOk, repos, err, visited, exit, inspected,
                cmd, dryRun, skipConfig, fromDevice, deviceOk, registry, manifest,
                midx>>

\* push.go 75-108: one turn of `for _, repo := range repos`
PushStep ==
    /\ pc = "loop" /\ cmd = "push"
    /\ \E ok \in BOOLEAN : PushRepo(repos[idx], RepoOutcome(repos[idx], dryRun), ok)
    /\ idx' = idx + 1
    /\ pc' = IF idx = Len(repos) THEN "finish" ELSE "loop"
    /\ LoopFrame

\* pull.go 121-150: one turn of `for _, repo := range repos`
PullStep ==
    /\ pc = "loop" /\ cmd = "pull"
    /\ \E ok \in BOOLEAN : PullRepo(repos[idx], RepoOutcome(repos[idx], dryRun), ok)
    /\ idx' = idx + 1
    /\ pc' = IF idx = Len(repos) THEN "finish" ELSE "loop"
    /\ LoopFrame

WantsConfig_InDryRun == ~skipConfig /\ (cmd = "pull" => fromDevice # "")

\* push.go 113, pull.go 155: whether the configuration is synced
WantsConfig == ~skipConfig /\ ~dryRun /\ (cmd = "pull" => fromDevice # "")

FindDevice_Nobody(ds, serial) == 0

\* config.go 220-227: the position of the first device of that serial, 0
\* for nil
FindDevice(ds, serial) ==
    IF \E i \in 1..Len(ds) : ds[i].Serial = serial
    THEN CHOOSE i \in 1..Len(ds) :
            /\ ds[i].Serial = serial
            /\ \A j \in 1..(i - 1) : ds[j].Serial # serial
    ELSE 0

UpdateLastSync_Everyone(ds, serial) ==
    [i \in 1..Len(ds) |-> [ds[i] EXCEPT !.LastSync = "now"]]

\* config.go 235-239: the device found gets the time of now
UpdateLastSync(ds, serial) ==
    IF FindDevice(ds, serial) = 0 THEN ds
    ELSE [ds EXCEPT ![FindDevice(ds, serial)].LastSync = "now"]

\* config.go 210-217: os.WriteFile writes the file, or fails and leaves it
\* as it was or cut short
SaveResults == {"written", "kept", "cut"}

Saved(file, written, o) ==
    CASE o = "written" -> written
      [] o = "kept" -> file
      [] o = "cut" -> CorruptFile

SaveOutcomes(file, written) == {Saved(file, written, o) : o \in SaveResults}

\* registry.UpdateLastSync(serial); registry.Save(path)
Synced(reg) ==
    [reg EXCEPT !.LastSync = IF reg.known THEN "now" ELSE @, !.saved = TRUE]

\* syncWorkspaceConfig / pullWorkspaceConfig: how the mirroring may go, as
\* the rsync processes started and whether an error came back
ConfigRuns ==
    {[rsync |-> 0, ok |-> FALSE],     \* the configuration could not be loaded
     [rsync |-> 0, ok |-> TRUE],      \* none of the sync paths exists
     [rsync |-> 1, ok |-> TRUE],
     [rsync |-> 1, ok |-> FALSE]}     \* rsync failed

\* what the mirroring prints and starts
ConfigLines(r) == <<Line("CONFIG", "", IF r.ok THEN "synced" ELSE "Warning")>>

ConfigCalls(r) == IF r.rsync > 0 THEN <<[op |-> "rsync", dir |-> <<".metarepo">>]>> ELSE <<>>

\* push.go 130-135, pull.go 172-177
SyncSummary ==
    IF cmd = "push" THEN Summary(counts, "Pushed", counts.pushedCount)
    ELSE Summary(counts, "Pulled", counts.pulledCount)

\* push.go 110-137, pull.go 152-179: the configuration, the registry, the
\* summary
Finish ==
    /\ pc = "finish"
    /\ cmd \in {"push", "pull"}
    /\ IF WantsConfig
       THEN \E r \in ConfigRuns :
               /\ printed' = printed \o ConfigLines(r) \o <<SyncSummary>>
               /\ gitCalls' = gitCalls \o ConfigCalls(r)
       ELSE /\ printed' = Append(printed, SyncSummary)
            /\ gitCalls' = gitCalls
    /\ registry' = IF registry.loaded /\ ~dryRun THEN Synced(registry) ELSE registry
    /\ devicesFile' \in (IF registry.loaded /\ ~dryRun
                          THEN SaveOutcomes(devicesFile,
                                   DeviceFile(UpdateLastSync(devicesFile.Devices, machine)))
                          ELSE {devicesFile})
    /\ exit' = 0
    /\ pc' = "done"
    /\ UNCHANGED <<cfgVars, extVars, machine, configFile, failure, earlier, rootName, fsys, fault, absOk, repos, err, visited, inspected,
                   cmd, dryRun, skipConfig, fromDevice, deviceOk, manifest,
                   midx, idx, counts>>

\* clone.go 37-52: the manifest is loaded, and may be missing or empty
CloneBegin ==
    /\ pc = "start"
    /\ cmd = "clone"
    /\ IF ~manifest.loaded THEN pc' = "done" /\ exit' = 1 /\ printed' = printed
       ELSE IF Len(manifest.Repositories) = 0
       THEN /\ pc' = "done"
            /\ exit' = 0
            /\ printed' = Append(printed, Numbers("No repositories in manifest.", <<>>))
       ELSE pc' = "clone" /\ exit' = exit /\ printed' = printed
    /\ UNCHANGED <<cfgVars, extVars, regVars, earlier, rootName, fsys, fault, absOk, repos, err, visited, inspected,
                   cmd, dryRun, skipConfig, fromDevice, deviceOk, registry, manifest,
                   midx, idx, counts, gitCalls>>

CloneOutcome_UrlFirst(e) ==
    IF e.URL = "" THEN "no URL"
    ELSE IF Stat(fsys, ClonePath(e)).kind # "absent" /\ IsGitRepo(World, ClonePath(e))
    THEN "already exists"
    ELSE IF dryRun THEN "dry" ELSE "git"

\* clone.go 61-76: what the loop does with an entry of the manifest
CloneOutcome(e) ==
    IF Stat(fsys, ClonePath(e)).kind # "absent" /\ IsGitRepo(World, ClonePath(e))
    THEN "already exists"
    ELSE IF e.URL = "" THEN "no URL"
    ELSE IF dryRun THEN "dry" ELSE "git"

\* clone.go 55-89: the body of the loop; ok is whether git clone succeeds
CloneRepo(e, outcome, ok, q) ==
    IF outcome \in {"already exists", "no URL"}
    THEN /\ printed' = Append(printed, Line("SKIP", e.Name, outcome))
         /\ counts' = [counts EXCEPT !.skippedCount = @ + 1]
         /\ UNCHANGED <<fsys, gitCalls>>
    ELSE IF outcome = "dry"
    THEN /\ printed' = Append(printed, Line("DRY", e.Name, "clone"))
         /\ UNCHANGED <<fsys, counts, gitCalls>>
    ELSE /\ gitCalls' = Append(gitCalls, [op |-> "clone", dir |-> ClonePath(e)])
         /\ printed' = Append(printed, Line("CLONE", e.Name, IF ok THEN "OK" ELSE "FAILED"))
         /\ counts' = IF ok THEN [counts EXCEPT !.clonedCount = @ + 1]
                      ELSE CountFailure(counts)
         /\ fsys' = IF ok THEN Cloned(fsys, ClonePath(e), q) ELSE fsys

\* clone.go 54-90: one turn of `for _, repo := range manifest.Repositories`
CloneCmdStep ==
    /\ pc = "clone"
    /\ \E ok \in CloneResults(ClonePath(manifest.Repositories[midx])) :
          \E q \in ClonedProfiles(ok) :
             CloneRepo(manifest.Repositories[midx],
                       CloneOutcome(manifest.Repositories[midx]), ok, q)
    /\ midx' = midx + 1
    /\ pc' = IF midx = Len(manifest.Repositories) THEN "clone-summary" ELSE "clone"
    /\ UNCHANGED <<cfgVars, extVars, regVars, earlier, rootName, fault, absOk, repos, err, visited, exit, inspected,
                   cmd, dryRun, skipConfig, fromDevice, deviceOk, registry,
                   manifest, idx>>

\* clone.go 92-100: the summary, and nil
CloneSummary ==
    /\ pc = "clone-summary"
    /\ printed' = Append(printed, Summary(counts, "Cloned", counts.clonedCount))
    /\ exit' = 0
    /\ pc' = "done"
    /\ UNCHANGED <<cfgVars, extVars, regVars, earlier, rootName, fsys, fault, absOk, repos, err, visited, inspected,
                   cmd, dryRun, skipConfig, fromDevice, deviceOk, registry, manifest,
                   midx, idx, counts, gitCalls>>

NextSync ==
    \/ Begin \/ CloneStep \/ Scan \/ PushStep \/ PullStep \/ Finish
    \/ CloneBegin \/ CloneCmdStep \/ CloneSummary

SpecSync == InitSync /\ [][NextSync]_vars

\* push alone
InitPush == InitSync /\ cmd = "push"

NextPush == Begin \/ Scan \/ PushStep \/ Finish

\* runPush is sequential code and runs to its end, every process it starts
\* returning
SpecPushFair == InitPush /\ [][NextPush]_vars /\ WF_vars(NextPush)

-----------------------------------------------------------------------------
(* The same command line twice in the same workspace. *)

\* a string as the manifest keeps it: the one word of a trimmed output
Text(tokens) == IF tokens = <<>> THEN "" ELSE tokens[1]

ManifestEntryOf_WithStatus(repo) ==
    [Name |-> repo.Name, Path |-> ManifestPath(repo.Path), URL |-> Text(repo.URL),
     Branch |-> Text(repo.Branch), Changed |-> repo.HasChanges]

\* repo.go 303-310: the entry made of a scanned repository
ManifestEntryOf(repo) ==
    [Name |-> repo.Name, Path |-> ManifestPath(repo.Path), URL |-> Text(repo.URL),
     Branch |-> Text(repo.Branch)]

ScannedEntries_Merged(old, found) ==
    old \o [i \in 1..Len(found) |-> ManifestEntryOf(found[i])]

\* repo.go 301-310: the list `repo scan` gives the manifest, old being the
\* list it loaded and found the repositories of the scan
ScannedEntries(old, found) ==
    [i \in 1..Len(found) |-> ManifestEntryOf(found[i])]

\* time.Now(), told apart by the invocation it is read in
Now == Len(earlier) + 1

\* the tree after .metarepo/manifest.yaml is written: a working directory
\* that is a repository has a change git status tells of
Touched(fs) ==
    IF fs[<<>>].git = "dir" /\ fs[<<>>].q.status.ok
    THEN [fs EXCEPT ![<<>>].q.status = Dirty.status]
    ELSE fs

\* repo.go 282-317: `repo scan`; saved is whether the manifest could be written
runRepoScan ==
    /\ pc = "start"
    /\ cmd = "repo scan"
    /\ \E r \in {ScanForRepos(World)}, saved \in BOOLEAN :
          /\ repos' = r.repos
          /\ err' = r.err
          /\ visited' = r.visited
          /\ IF r.err \/ ~saved
             THEN exit' = 1 /\ UNCHANGED <<manifest, fsys, printed>>
             ELSE /\ exit' = 0
                  /\ manifest' = [loaded |-> TRUE, Generated |-> Now,
                                  Repositories |->
                                      ScannedEntries(manifest.Repositories, r.repos)]
                  /\ fsys' = Touched(fsys)
                  /\ printed' = Append(printed, Numbers("Found and registered",
                                           <<<<"repositories", Len(r.repos)>>>>))
    /\ pc' = "done"
    /\ UNCHANGED <<rootName, fault, absOk, inspected, cmd, dryRun, skipConfig,
                   fromDevice, deviceOk, registry, midx, idx, counts, gitCalls,
                   earlier, cfgVars, extVars, regVars>>

\* an invocation as it is remembered
RunRecord ==
    [cmd |-> cmd, dryRun |-> dryRun, exit |-> exit, printed |-> printed,
     gitCalls |-> gitCalls, manifest |-> manifest]

\* the same command is started again in the workspace as the first run left
\* it, with or without --dry-run
Repeat ==
    /\ pc = "done"
    /\ earlier = <<>>
    /\ earlier' = <<RunRecord>>
    /\ dryRun' \in (IF cmd = "repo scan" THEN {FALSE} ELSE BOOLEAN)
    /\ pc' = "start"
    /\ repos' = <<>>
    /\ err' = FALSE
    /\ visited' = <<>>
    /\ exit' = -1
    /\ midx' = 1
    /\ idx' = 1
    /\ counts' = NoCounts
    /\ printed' = <<>>
    /\ gitCalls' = <<>>
    /\ registry' = [registry EXCEPT !.saved = FALSE]
    /\ UNCHANGED <<rootName, fsys, fault, absOk, inspected, cmd, skipConfig,
                   fromDevice, deviceOk, manifest, cfgVars, extVars, regVars>>

\* the workspaces of two entries
TwiceTrees == {f \in SyncTrees : <<"z">> \notin DOMAIN f}

\* the first run: a dry run of clone, push or pull, or `repo scan`
InitTwice ==
    /\ cmd \in {"push", "pull", "clone", "repo scan"}
    /\ dryRun = (cmd # "repo scan")
    /\ skipConfig \in (IF cmd \in {"push", "pull"} THEN BOOLEAN ELSE {FALSE})
    /\ fromDevice \in (IF cmd = "pull" THEN {"", "laptop"} ELSE {""})
    /\ registry \in (IF cmd \in {"push", "pull"} THEN Registries ELSE {NoRegistry})
    /\ manifest \in (IF cmd = "push" THEN {NoManifest} ELSE Manifests)
    /\ \/ \E f \in TwiceTrees : fsys = WithRoot(f, DirEntry("none"))
       \/ \E o \in SyncProfiles : fsys = WithRoot(NoRoot, [DirEntry("dir") EXCEPT !.q = o])
    /\ absOk = TRUE
    /\ deviceOk = TRUE
    /\ rootName = "ws"
    /\ fault = NoFault
    /\ pc = "start"
    /\ repos = <<>>
    /\ err = FALSE
    /\ visited = <<>>
    /\ exit = -1
    /\ inspected = NotInspected
    /\ midx = 1
    /\ idx = 1
    /\ counts = NoCounts
    /\ printed = <<>>
    /\ gitCalls = <<>>
    /\ earlier = <<>>
    /\ ConfigIdle
    /\ devicesFile = FileFor(registry)
    /\ machine = "S1"
    /\ configFile = TRUE
    /\ failure = ""
    /\ workspaceId = "u1"
    /\ DetectIdle
    /\ procs = <<>>

NextTwice == NextSync \/ runRepoScan \/ Repeat

SpecTwice == InitTwice /\ [][NextTwice]_vars

-----------------------------------------------------------------------------
(* Config.IsExcluded, and path/filepath.Match as it calls it.  Strings are
   sequences of one-character strings. *)

\* the characters in byte order
CharOrder ==
    <<"*", "-", "?", "[", "\\", "]", "^", "a", "b", "c", "e", "f", "h", "i", "m",
      "o", "p", "r", "s", "t", "v", "w", "z">>

\* the byte of a character; 0 for the zero rune
Code(c) == IF c = "" THEN 0 ELSE CHOOSE i \in 1..Len(CharOrder) : CharOrder[i] = c

BadPattern == [r |-> "", rest |-> <<>>, err |-> TRUE]

\* getEsc: one character of a class, escaped or not; a class may not end here
getEsc(chunk) ==
    IF chunk = <<>> \/ chunk[1] \in {"-", "]"} THEN BadPattern
    ELSE LET c == IF chunk[1] = "\\" THEN Tail(chunk) ELSE chunk IN
         IF c = <<>> THEN BadPattern
         ELSE [r |-> c[1], rest |-> Tail(c), err |-> Tail(c) = <<>>]

RECURSIVE classRanges(_, _, _, _)
\* matchChunk, `for { ... nrange++ }`: the ranges of a class up to its "]",
\* and whether r is in one of them
classRanges(chunk, r, match, nrange) ==
    IF chunk # <<>> /\ chunk[1] = "]" /\ nrange > 0
    THEN [chunk |-> Tail(chunk), match |-> match, err |-> FALSE]
    ELSE LET lo == getEsc(chunk) IN
         IF lo.err THEN [chunk |-> <<>>, match |-> FALSE, err |-> TRUE]
         ELSE IF lo.rest[1] = "-"
         THEN LET hi == getEsc(Tail(lo.rest)) IN
              IF hi.err THEN [chunk |-> <<>>, match |-> FALSE, err |-> TRUE]
              ELSE classRanges(hi.rest, r,
                               match \/ (Code(lo.r) <= Code(r) /\ Code(r) <= Code(hi.r)),
                               nrange + 1)
         ELSE classRanges(lo.rest, r, match \/ Code(r) = Code(lo.r), nrange + 1)

NoMatch == [rest |-> <<>>, ok |-> FALSE, err |-> FALSE]

ChunkError == [rest |-> <<>>, ok |-> FALSE, err |-> TRUE]

RECURSIVE matchChunkFrom(_, _, _)
\* matchChunk, `for len(chunk) > 0`: the chunk against the start of s, with
\* failed once s cannot match and the rest is only checked for its syntax
matchChunkFrom(chunk, s, failed0) ==
    IF chunk = <<>>
    THEN IF failed0 THEN NoMatch ELSE [rest |-> s, ok |-> TRUE, err |-> FALSE]
    ELSE LET failed == failed0 \/ s = <<>>
             s1 == IF failed THEN s ELSE Tail(s)
         IN
         IF chunk[1] = "["
         THEN LET r == IF failed THEN "" ELSE s[1]
                  c1 == Tail(chunk)
                  negated == c1 # <<>> /\ c1[1] = "^"
                  cl == classRanges(IF negated THEN Tail(c1) ELSE c1, r, FALSE, 0)
              IN IF cl.err THEN ChunkError
                 ELSE matchChunkFrom(cl.chunk, s1, failed \/ (cl.match = negated))
         ELSE IF chunk[1] = "?"
         THEN matchChunkFrom(Tail(chunk), s1, failed)
         ELSE IF chunk[1] = "\\"
         THEN IF Tail(chunk) = <<>> THEN ChunkError
              ELSE matchChunkFrom(Tail(Tail(chunk)), s1,
                                  IF failed THEN TRUE ELSE chunk[2] # s[1])
         ELSE matchChunkFrom(Tail(chunk), s1, IF failed THEN TRUE ELSE chunk[1] # s[1])

\* matchChunk
matchChunk(chunk, s) == matchChunkFrom(chunk, s, FALSE)

RECURSIVE scanEnd(_, _, _)
\* scanChunk, the loop under `Scan:`: the position the chunk ends before
scanEnd(pattern, i, inrange) ==
    IF i > Len(pattern) THEN i
    ELSE IF pattern[i] = "\\"
    THEN scanEnd(pattern, IF i + 1 <= Len(pattern) THEN i + 2 ELSE i + 1, inrange)
    ELSE IF pattern[i] = "[" THEN scanEnd(pattern, i + 1, TRUE)
    ELSE IF pattern[i] = "]" THEN scanEnd(pattern, i + 1, FALSE)
    ELSE IF pattern[i] = "*" /\ ~inrange THEN i
    ELSE scanEnd(pattern, i + 1, inrange)

RECURSIVE DropStars(_)
DropStars(pattern) ==
    IF pattern # <<>> /\ pattern[1] = "*" THEN DropStars(Tail(pattern)) ELSE pattern

\* scanChunk: the stars a pattern starts with, the chunk up to the next
\* star outside a class, and the rest
scanChunk(pattern) ==
    LET p == DropStars(pattern)
        i == scanEnd(p, 1, FALSE)
    IN [star |-> pattern # <<>> /\ pattern[1] = "*",
        chunk |-> SubSeq(p, 1, i - 1),
        rest |-> SubSeq(p, i, Len(p))]

RECURSIVE RestIsBad(_)
\* Match, "check that the remainder of the pattern is syntactically valid"
RestIsBad(pattern) ==
    IF pattern = <<>> THEN FALSE
    ELSE matchChunk(scanChunk(pattern).chunk, <<>>).err
            \/ RestIsBad(scanChunk(pattern).rest)

Matched(b) == [matched |-> b, err |-> FALSE]

MatchError == [matched |-> FALSE, err |-> TRUE]

RECURSIVE Match(_, _), MatchSkipping(_, _, _, _)
\* Match, `for i := 0; i < len(name) ...`: the chunk after a star is looked
\* for i + 1 characters on, then i + 2, ...
MatchSkipping(chunk, rest, name, i) ==
    IF i >= Len(name)
    THEN IF RestIsBad(rest) THEN MatchError ELSE Matched(FALSE)
    ELSE LET t == matchChunk(chunk, SubSeq(name, i + 2, Len(name))) IN
         IF t.ok
         THEN IF rest = <<>> /\ t.rest # <<>>
              THEN MatchSkipping(chunk, rest, name, i + 1)
              ELSE Match(rest, t.rest)
         ELSE IF t.err THEN MatchError
         ELSE MatchSkipping(chunk, rest, name, i + 1)

\* filepath.Match(pattern, name), for names without a path separator
Match(pattern, name) ==
    IF pattern = <<>> THEN Matched(name = <<>>)
    ELSE LET sc == scanChunk(pattern) IN
         IF sc.star /\ sc.chunk = <<>> THEN Matched(TRUE)
         ELSE LET t == matchChunk(sc.chunk, name) IN
              IF t.ok /\ (t.rest = <<>> \/ sc.rest # <<>>) THEN Match(sc.rest, t.rest)
              ELSE IF t.err THEN MatchError
              ELSE IF sc.star THEN MatchSkipping(sc.chunk, sc.rest, name, 0)
              ELSE IF RestIsBad(sc.rest) THEN MatchError
              ELSE Matched(FALSE)

RECURSIVE IsExcluded_GlobOnly(_, _), IsExcluded(_, _)
IsExcluded_GlobOnly(patterns, name) ==
    IF patterns = <<>> THEN FALSE
    ELSE IF Match(patterns[1], name).matched THEN TRUE
    ELSE IsExcluded_GlobOnly(Tail(patterns), name)

\* config.go 242-253: Config.IsExcluded over c.Repos.Exclude
IsExcluded(patterns, name) ==
    IF patterns = <<>> THEN FALSE
    ELSE IF Match(patterns[1], name).matched THEN TRUE
    ELSE IF patterns[1] = name THEN TRUE
    ELSE IsExcluded(Tail(patterns), name)

\* the strings of the documentation and of the README
TempStar == <<"t", "e", "m", "p", "-", "*">>

TempFoo == <<"t", "e", "m", "p", "-", "f", "o", "o">>

Archive == <<"a", "r", "c", "h", "i", "v", "e">>

\* patterns with ranges, negation and escapes, well formed and not
ClassPatterns ==
    {<<"[", "a", "-", "b", "]">>, <<"[", "^", "a", "]">>, <<"[", "^", "a", "]", "b">>,
     <<"[", "b", "-", "a", "]">>, <<"[", "a", "-", "]">>, <<"[", "a", "-">>,
     <<"[", "\\", "]", "]">>, <<"a", "\\", "*">>, <<"a", "\\">>, <<"[", "]", "a", "]">>,
     <<"*", "a", "*", "b">>, <<"*", "[", "a", "b", "]", "?">>, <<"[", "a", "b">>}

PatternChars == {"a", "b", "*", "?", "[", "]"}

NameChars == {"a", "b", "[", "*"}

SeqsUpTo(S, n) == UNION {[1..k -> S] : k \in 0..n}

Patterns == SeqsUpTo(PatternChars, MaxPattern) \cup ClassPatterns \cup {TempStar, Archive}

RepoNames ==
    SeqsUpTo(NameChars, MaxPattern)
        \cup {TempFoo, Archive, <<"[", "a", "b">>, <<"a", "b", "a", "b">>, <<"a", "\\">>}

\* repos.exclude: nothing, one pattern, or two
ExcludeLists ==
    {<<>>} \cup {<<p>> : p \in Patterns}
        \cup {<<p, q>> : p \in {TempStar, <<"[", "a", "b">>}, q \in ClassPatterns \cup {Archive}}

InitMatch ==
    /\ exclude \in ExcludeLists
    /\ repoName \in RepoNames
    /\ excluded = NotAsked
    /\ RunIdle
    /\ RegistryIdle
    /\ ExtIdle
    /\ rootName = "ws"
    /\ fsys = NoRoot
    /\ fault = NoFault
    /\ absOk = TRUE
    /\ pc = "start"
    /\ repos = <<>>
    /\ err = FALSE
    /\ visited = <<>>
    /\ exit = -1
    /\ inspected = NotInspected

\* a call of c.IsExcluded(repoName)
IsExcludedCall ==
    /\ pc = "start"
    /\ excluded' = [called |-> TRUE, value |-> IsExcluded(exclude, repoName)]
    /\ pc' = "done"
    /\ UNCHANGED <<rootName, fsys, fault, absOk, repos, err, visited, exit, inspected,
                   cmd, dryRun, skipConfig, fromDevice, deviceOk, registry, manifest,
                   midx, idx, counts, printed, gitCalls, earlier, exclude, repoName,
                   regVars, extVars>>

NextMatch == IsExcludedCall

SpecMatch == InitMatch /\ [][NextMatch]_vars

-----------------------------------------------------------------------------
(* push and pull in a workspace whose configuration excludes repositories. *)

\* the characters of a name of the trees
Chars(name) ==
    CASE name = "a" -> <<"a">>
      [] name = "m" -> <<"m">>
      [] name = "z" -> <<"z">>
      [] name = "ws" -> <<"w", "s">>

\* repos.exclude of .metarepo/config.yaml: a name, a pattern, a name no
\* repository has
SyncExcludes == {<<<<"a">>>>, <<<<"?">>, <<"w", "*">>>>, <<TempStar>>}

\* push or pull for real, without the configuration sync
InitExclude ==
    /\ InitSyncOver(SyncExcludes)
    /\ cmd \in {"push", "pull"}
    /\ ~dryRun
    /\ skipConfig
    /\ fromDevice = ""
    /\ registry = NoRegistry
    /\ absOk /\ deviceOk

NextExclude == Begin \/ CloneStep \/ Scan \/ PushStep \/ PullStep \/ Finish

SpecExclude == InitExclude /\ [][NextExclude]_vars

-----------------------------------------------------------------------------
(* init, device register, push and pull, one invocation after the other, on
   the machines that share a workspace. *)

Serials == {"S1", "S2"}

\* the hostname, or the name typed or given as argument
DeviceNames == {"host", "work"}

\* what LoadDeviceRegistry and FindDevice give the command that starts
ViewOf(file, serial) ==
    IF file.state = "corrupt" THEN NoRegistry
    ELSE [loaded |-> TRUE,
          known |-> FindDevice(file.Devices, serial) # 0,
          LastSync |-> IF FindDevice(file.Devices, serial) = 0 THEN "never"
                       ELSE file.Devices[FindDevice(file.Devices, serial)].LastSync,
          saved |-> FALSE]

\* a working directory with one repository, not a workspace yet
InitRegistry ==
    /\ cmd = "none"
    /\ pc = "done"
    /\ fsys = WithRoot([p \in {<<"a">>} |-> DirEntry("dir")], DirEntry("none"))
    /\ devicesFile = MissingFile
    /\ configFile = FALSE
    /\ machine = "S1"
    /\ failure = ""
    /\ ExtIdle
    /\ manifest = NoManifest
    /\ registry = ViewOf(MissingFile, "S1")
    /\ ConfigIdle
    /\ dryRun = FALSE
    /\ skipConfig = TRUE
    /\ fromDevice = ""
    /\ deviceOk = TRUE
    /\ rootName = "ws"
    /\ fault = NoFault
    /\ absOk = TRUE
    /\ repos = <<>>
    /\ err = FALSE
    /\ visited = <<>>
    /\ exit = -1
    /\ inspected = NotInspected
    /\ midx = 1
    /\ idx = 1
    /\ counts = NoCounts
    /\ printed = <<>>
    /\ gitCalls = <<>>
    /\ earlier = <<>>

\* main: the next invocation, on one of the machines, once the one before
\* has ended
NextCommand ==
    /\ pc = "done"
    /\ cmd' \in {"init", "device register", "device info", "workspace info",
                 "push", "pull"}
    /\ machine' \in Serials
    /\ deviceOk' \in BOOLEAN
    /\ dryRun' \in (IF cmd' \in {"push", "pull"} THEN BOOLEAN ELSE {FALSE})
    /\ registry' = ViewOf(devicesFile, machine')
    /\ pc' = "start"
    /\ failure' = ""
    /\ repos' = <<>>
    /\ err' = FALSE
    /\ visited' = <<>>
    /\ exit' = -1
    /\ midx' = 1
    /\ idx' = 1
    /\ counts' = NoCounts
    /\ printed' = <<>>
    /\ gitCalls' = <<>>
    /\ UNCHANGED <<rootName, fsys, fault, absOk, inspected, skipConfig, fromDevice,
                   manifest, earlier, cfgVars, extVars, devicesFile, configFile>>

\* config.go 103-131: the identifiers uuid.New() may give DefaultConfig
Uuids == {"u1", "u2"}

\* where runInit may fail once it has the device
InitFailures == {"none", "mkdir", "config", "manifest", "devices", "workspace-config"}

\* pull.go 268-370: runInit; force is --force, name the device name
\* read, failAt the first step that fails
runInit ==
    /\ pc = "start"
    /\ cmd = "init"
    /\ \E force \in BOOLEAN, name \in DeviceNames, failAt \in InitFailures :
          IF ~absOk \/ (configFile /\ ~force) \/ ~deviceOk
          THEN /\ failure' = IF ~absOk THEN "failed to resolve path"
                              ELSE IF configFile /\ ~force THEN "already initialized"
                              ELSE "failed to get device info"
               /\ exit' = 1
               /\ UNCHANGED <<configFile, manifest, devicesFile, printed, workspaceId>>
          ELSE /\ configFile' \in (IF failAt = "mkdir" THEN {configFile}
                                    ELSE IF failAt = "config" THEN {configFile, TRUE}
                                    ELSE {TRUE})
               \* cfg := config.DefaultConfig() draws a new identifier, and
               \* cfg.Save writes it; a write that fails may leave none to read
               /\ workspaceId' \in (IF failAt = "mkdir" THEN {workspaceId}
                                     ELSE IF failAt = "config"
                                     THEN (IF configFile' = configFile
                                           THEN {workspaceId, ""} ELSE {""})
                                     ELSE Uuids)
               /\ manifest' \in
                     (IF failAt \in {"mkdir", "config"} THEN {manifest}
                      ELSE IF failAt = "manifest" THEN {manifest, NoManifest}
                      ELSE {[loaded |-> TRUE, Generated |-> Now, Repositories |-> <<>>]})
               /\ devicesFile' \in
                     (IF failAt \in {"mkdir", "config", "manifest"} THEN {devicesFile}
                      ELSE IF failAt = "devices" THEN {devicesFile, CorruptFile}
                      ELSE {DeviceFile(<<Device(machine, name, "never")>>)})
               /\ failure' = IF failAt = "none" THEN "" ELSE "failed at " \o failAt
               /\ exit' = IF failAt = "none" THEN 0 ELSE 1
               /\ printed' = IF failAt = "none"
                             THEN Append(printed, Line("INIT", name, "initialized"))
                             ELSE printed
    /\ pc' = "done"
    /\ UNCHANGED <<rootName, fsys, fault, absOk, repos, err, visited, inspected,
                   cmd, dryRun, skipConfig, fromDevice, deviceOk, registry, midx, idx,
                   counts, gitCalls, earlier, cfgVars, detVars, procs, machine>>

\* part_003 124-164: runDeviceRegister; name is the hostname or args[0], o
\* how registry.Save goes, made whether the directory could be made
runDeviceRegister ==
    /\ pc = "start"
    /\ cmd = "device register"
    /\ \E name \in DeviceNames, o \in SaveResults, made \in BOOLEAN :
          IF ~deviceOk
          THEN failure' = "failed to get device info" /\ exit' = 1
               /\ UNCHANGED <<devicesFile, printed>>
          ELSE IF devicesFile.state = "corrupt"
          THEN failure' = "failed to load device registry" /\ exit' = 1
               /\ UNCHANGED <<devicesFile, printed>>
          ELSE IF FindDevice(devicesFile.Devices, machine) # 0
          THEN failure' = "device already registered" /\ exit' = 1
               /\ UNCHANGED <<devicesFile, printed>>
          ELSE /\ devicesFile' =
                     Saved(devicesFile,
                           DeviceFile(Append(devicesFile.Devices,
                                             Device(machine, name, "never"))), o)
               /\ failure' = IF o # "written" THEN "failed to save device registry"
                              ELSE IF ~made THEN "failed to create workspace-config directory"
                              ELSE ""
               /\ exit' = IF o = "written" /\ made THEN 0 ELSE 1
               /\ printed' = IF o = "written" /\ made
                             THEN Append(printed, Line("REGISTERED", name, machine))
                             ELSE printed
    /\ pc' = "done"
    /\ UNCHANGED <<rootName, fsys, fault, absOk, repos, err, visited, inspected,
                   cmd, dryRun, skipConfig, fromDevice, deviceOk, registry, manifest,
                   midx, idx, counts, gitCalls, earlier, cfgVars, extVars, machine, configFile>>

\* part_003 49-81: runDeviceInfo; the registry is read for the status line
runDeviceInfo ==
    /\ pc = "start"
    /\ cmd = "device info"
    /\ IF ~deviceOk
       THEN failure' = "failed to get device info" /\ exit' = 1 /\ printed' = printed
       ELSE /\ failure' = ""
            /\ exit' = 0
            /\ printed' = Append(printed,
                    Line("DEVICE", machine,
                         IF FindDevice(devicesFile.Devices, machine) # 0
                         THEN "Registered" ELSE "Not registered"))
    /\ pc' = "done"
    /\ UNCHANGED <<rootName, fsys, fault, absOk, repos, err, visited, inspected,
                   cmd, dryRun, skipConfig, fromDevice, deviceOk, registry, manifest,
                   midx, idx, counts, gitCalls, earlier, cfgVars, extVars, machine,
                   configFile, devicesFile>>

\* workspace.go 31-92: runWorkspaceInfo; config.yaml is loaded first
runWorkspaceInfo ==
    /\ pc = "start"
    /\ cmd = "workspace info"
    /\ IF ~configFile \/ workspaceId = ""
       THEN failure' = "not in a metarepo workspace" /\ exit' = 1 /\ printed' = printed
       ELSE IF ~deviceOk
       THEN failure' = "failed to get device info" /\ exit' = 1 /\ printed' = printed
       ELSE /\ failure' = ""
            /\ exit' = 0
            /\ printed' = Append(printed, Line("WORKSPACE", workspaceId, machine))
    /\ pc' = "done"
    /\ UNCHANGED <<rootName, fsys, fault, absOk, repos, err, visited, inspected,
                   cmd, dryRun, skipConfig, fromDevice, deviceOk, registry, manifest,
                   midx, idx, counts, gitCalls, earlier, cfgVars, extVars, machine,
                   configFile, devicesFile>>

NextRegistry ==
    \/ NextCommand \/ runInit \/ runDeviceRegister
    \/ runDeviceInfo \/ runWorkspaceInfo
    \/ Begin \/ Scan \/ PushStep \/ PullStep \/ Finish

SpecRegistry == InitRegistry /\ [][NextRegistry]_vars

-----------------------------------------------------------------------------
(* repo scan, repo add and clone, one invocation after the other, in a
   working directory with repositories at two levels. *)

\* a URL given to `repo add`: what precedes the last element, and the last
\* element as filepath.Ext divides it
Url(dir, stem, ext) == [dir |-> dir, stem |-> stem, ext |-> ext]

UrlText(u) == u.dir \o "/" \o u.stem \o u.ext

\* repo.go 239-241: filepath.Base(url) without its filepath.Ext
RepoNameOf(u) == u.stem

AddUrls == {Url("https://x", "m", ".git"), Url("https://x", "a", ".git"),
            Url("https://y", "m", "")}

\* a directory a, a repository or not, a repository m, and a repository m
\* inside a; the working directory a repository itself or not
ManifestTrees ==
    {WithRoot(f, DirEntry(g)) :
        g \in {"none", "dir"},
        f \in UNION {[S -> {DirEntry("none"), DirEntry("dir"),
                            [DirEntry("dir") EXCEPT !.q = NoRemoteDirty]}] :
                        S \in {{}, {<<"a">>}, {<<"m">>}, {<<"a">>, <<"m">>},
                               {<<"a">>, <<"a", "m">>},
                               {<<"a">>, <<"m">>, <<"a", "m">>}}}}

InitManifest ==
    /\ cmd \in {"repo scan", "repo add", "clone"}
    /\ dryRun \in (IF cmd = "clone" THEN BOOLEAN ELSE {FALSE})
    /\ manifest \in Manifests
    /\ fsys \in ManifestTrees
    /\ skipConfig = FALSE
    /\ fromDevice = ""
    /\ registry = NoRegistry
    /\ absOk = TRUE
    /\ deviceOk = TRUE
    /\ rootName = "ws"
    /\ fault = NoFault
    /\ pc = "start"
    /\ repos = <<>>
    /\ err = FALSE
    /\ visited = <<>>
    /\ exit = -1
    /\ inspected = NotInspected
    /\ midx = 1
    /\ idx = 1
    /\ counts = NoCounts
    /\ printed = <<>>
    /\ gitCalls = <<>>
    /\ earlier = <<>>
    /\ ConfigIdle
    /\ devicesFile = MissingFile
    /\ machine = "S1"
    /\ configFile = TRUE
    /\ failure = ""
    /\ workspaceId = "u1"
    /\ DetectIdle
    /\ procs = <<>>

\* main: the next invocation in the same working directory, once the one
\* before has ended; the one before is remembered
NextManifestCommand ==
    /\ pc = "done"
    /\ cmd' \in {"repo scan", "repo add", "clone"}
    /\ dryRun' \in (IF cmd' = "clone" THEN BOOLEAN ELSE {FALSE})
    /\ earlier' = <<RunRecord>>
    /\ pc' = "start"
    /\ repos' = <<>>
    /\ err' = FALSE
    /\ visited' = <<>>
    /\ exit' = -1
    /\ midx' = 1
    /\ idx' = 1
    /\ counts' = NoCounts
    /\ printed' = <<>>
    /\ gitCalls' = <<>>
    /\ UNCHANGED <<rootName, fsys, fault, absOk, inspected, skipConfig, fromDevice,
                   deviceOk, registry, manifest, cfgVars, regVars, extVars>>

\* what git clone of a URL leaves checked out: origin is the URL
ClonedFrom(u, q) == [q EXCEPT !.url = Ok(<<UrlText(u), "\n">>)]

\* repo.go 266-272: the list `repo add` gives the manifest
AddedEntries(old, name, info) ==
    Append(old, [Name |-> name, Path |-> name, URL |-> Text(info.URL),
                 Branch |-> Text(info.Branch)])

\* repo.go 236-280: `repo add <url>`; ok is whether git clone succeeds, q
\* what it checks out, saved whether the manifest could be written
runRepoAdd ==
    /\ pc = "start"
    /\ cmd = "repo add"
    /\ \E u \in AddUrls, saved \in BOOLEAN :
       \E ok \in CloneResults(<<RepoNameOf(u)>>) :
       \E q \in ClonedProfiles(ok) :
          /\ gitCalls' = Append(gitCalls, [op |-> "clone", dir |-> <<RepoNameOf(u)>>])
          /\ IF ~ok
             THEN exit' = 1 /\ UNCHANGED <<fsys, manifest, printed>>
             ELSE \E r \in {GetRepoInfo([World EXCEPT !.fs =
                                 Cloned(fsys, <<RepoNameOf(u)>>, ClonedFrom(u, q))],
                                         <<RepoNameOf(u)>>)} :
                    IF r.err # "nil" \/ ~saved
                    THEN /\ exit' = 1
                         /\ fsys' = Cloned(fsys, <<RepoNameOf(u)>>, ClonedFrom(u, q))
                         /\ UNCHANGED <<manifest, printed>>
                    ELSE /\ exit' = 0
                         /\ fsys' = Touched(Cloned(fsys, <<RepoNameOf(u)>>,
                                                   ClonedFrom(u, q)))
                         /\ manifest' =
                               [loaded |-> TRUE, Generated |-> Now,
                                Repositories |->
                                    AddedEntries(manifest.Repositories,
                                                 RepoNameOf(u), r.info)]
                         /\ printed' = Append(printed,
                                           Line("ADDED", RepoNameOf(u), "added successfully"))
    /\ pc' = "done"
    /\ UNCHANGED <<rootName, fault, absOk, repos, err, visited, inspected, cmd, dryRun,
                   skipConfig, fromDevice, deviceOk, registry, midx, idx, counts,
                   earlier, cfgVars, regVars, extVars>>

NextManifest ==
    \/ NextManifestCommand \/ runRepoScan \/ runRepoAdd
    \/ CloneBegin \/ CloneCmdStep \/ CloneSummary

SpecManifest == InitManifest /\ [][NextManifest]_vars

-----------------------------------------------------------------------------
(* DetectRuntimes on one project directory.  A file is there with one of
   three contents: "pin" (it reads, and holds the version looked for),
   "plain" (it reads, and holds none), "unreadable" (os.Stat succeeds and
   os.ReadFile fails).  For a venv directory the content tells of its
   bin/python: "pin" (it prints its version), "plain" (it is there and
   prints none), "unreadable" (it is not there). *)

PythonIndicators ==
    <<"requirements.txt", "pyproject.toml", "setup.py", "Pipfile", ".python-version">>

venvPaths == <<".venv", "venv">>

NodeIndicators ==
    <<"package.json", "package-lock.json", "yarn.lock", "pnpm-lock.yaml", ".nvmrc",
      ".node-version">>

GoFiles == <<"go.mod", "go.sum">>

RustFiles == <<"Cargo.toml", "rust-toolchain.toml", "Cargo.lock">>

Range(seq) == {seq[i] : i \in 1..Len(seq)}

Contents == {"pin", "plain", "unreadable"}

\* os.Stat(filepath.Join(repoPath, name)) succeeds
StatOk(dir, name) == name \in DOMAIN dir

\* os.ReadFile succeeds
ReadOk(dir, name) == name \in DOMAIN dir /\ dir[name] # "unreadable"

\* the version a file holds, told apart by the file
VersionIn(name) == "version of " \o name

\* strings.TrimSpace of the whole file
Verbatim(dir, name) == IF dir[name] = "pin" THEN VersionIn(name) ELSE ""

\* regexp FindStringSubmatch on the file: the version, or the one before
Extracted(dir, name, version) ==
    IF dir[name] = "pin" THEN VersionIn(name) ELSE version

NoRuntime == [Language |-> "", Version |-> "", Files |-> <<>>]

RuntimeInfo(language, version, files) ==
    [Language |-> language, Version |-> version, Files |-> files]

\* runtimes.go 58-81: the version after the indicators from the i-th on
RECURSIVE PythonVersion(_, _, _)
PythonVersion(dir, i, version) ==
    IF i > Len(PythonIndicators) THEN version
    ELSE IF ~StatOk(dir, PythonIndicators[i]) THEN PythonVersion(dir, i + 1, version)
    ELSE IF PythonIndicators[i] = ".python-version" /\ ReadOk(dir, ".python-version")
    THEN PythonVersion(dir, i + 1, Verbatim(dir, ".python-version"))
    ELSE IF PythonIndicators[i] = "pyproject.toml" /\ version = ""
            /\ ReadOk(dir, "pyproject.toml")
    THEN PythonVersion(dir, i + 1, Extracted(dir, "pyproject.toml", version))
    ELSE PythonVersion(dir, i + 1, version)

\* runtimes.go 94-109: the version bin/python of the first venv that has
\* one prints, from the i-th venv on
RECURSIVE VenvVersion(_, _)
VenvVersion(dir, i) ==
    IF i > Len(venvPaths) THEN ""
    ELSE IF ReadOk(dir, venvPaths[i]) THEN Verbatim(dir, venvPaths[i])
    ELSE VenvVersion(dir, i + 1)

\* runtimes.go 45-116
detectPython(dir) ==
    LET files == SelectSeq(PythonIndicators, LAMBDA n : StatOk(dir, n))
                 \o [k \in 1..Len(SelectSeq(venvPaths, LAMBDA n : StatOk(dir, n))) |->
                        SelectSeq(venvPaths, LAMBDA n : StatOk(dir, n))[k] \o "/"]
        version == PythonVersion(dir, 1, "")
    IN  IF Len(files) = 0 THEN NoRuntime
        ELSE RuntimeInfo("python",
                         IF version = "" THEN VenvVersion(dir, 1) ELSE version, files)

\* runtimes.go 131-143: the version after the indicators from the i-th on
RECURSIVE NodeVersion(_, _, _)
NodeVersion(dir, i, version) ==
    IF i > Len(NodeIndicators) THEN version
    ELSE IF NodeIndicators[i] \in {".nvmrc", ".node-version"}
            /\ ReadOk(dir, NodeIndicators[i])
    THEN NodeVersion(dir, i + 1, Verbatim(dir, NodeIndicators[i]))
    ELSE NodeVersion(dir, i + 1, version)

\* runtimes.go 118-154
detectNode(dir) ==
    LET files == SelectSeq(NodeIndicators, LAMBDA n : StatOk(dir, n))
    IN  IF Len(files) = 0 THEN NoRuntime
        ELSE RuntimeInfo("node", NodeVersion(dir, 1, ""), files)

\* runtimes.go 156-186
detectGo(dir) ==
    LET files == SelectSeq(GoFiles, LAMBDA n : StatOk(dir, n))
    IN  IF Len(files) = 0 THEN NoRuntime
        ELSE RuntimeInfo("go",
                         IF ReadOk(dir, "go.mod") THEN Extracted(dir, "go.mod", "")
                         ELSE "",
                         files)

\* runtimes.go 188-220: rust-toolchain.toml is read only when Cargo.toml
\* is there
detectRust(dir) ==
    LET files ==
            (IF StatOk(dir, "Cargo.toml")
             THEN <<"Cargo.toml">> \o (IF ReadOk(dir, "rust-toolchain.toml")
                                       THEN <<"rust-toolchain.toml">> ELSE <<>>)
             ELSE <<>>)
            \o (IF StatOk(dir, "Cargo.lock") THEN <<"Cargo.lock">> ELSE <<>>)
    IN  IF Len(files) = 0 THEN NoRuntime
        ELSE RuntimeInfo("rust",
                         IF StatOk(dir, "Cargo.toml") /\ ReadOk(dir, "rust-toolchain.toml")
                         THEN Extracted(dir, "rust-toolchain.toml", "")
                         ELSE "",
                         files)

\* runtimes.go 19-43
DetectRuntimes(dir) ==
    SelectSeq(<<detectPython(dir), detectNode(dir), detectGo(dir), detectRust(dir)>>,
              LAMBDA rt : rt # NoRuntime)

\* the names the detectors look for
MarkerNames ==
    Range(PythonIndicators) \cup Range(venvPaths) \cup Range(NodeIndicators)
    \cup Range(GoFiles) \cup Range(RustFiles)

\* the project directories of at most MaxMarkers such files
ProjectDirs ==
    UNION {[S -> Contents] : S \in {T \in SUBSET MarkerNames : Cardinality(T) <= MaxMarkers}}

InitRuntimes ==
    /\ markers \in ProjectDirs
    /\ runtimes = [called |-> FALSE, value |-> <<>>]
    /\ workspaceId = ""
    /\ procs = <<>>
    /\ RunIdle
    /\ ConfigIdle
    /\ RegistryIdle
    /\ rootName = "ws"
    /\ fsys = NoRoot
    /\ fault = NoFault
    /\ absOk = TRUE
    /\ pc = "start"
    /\ repos = <<>>
    /\ err = FALSE
    /\ visited = <<>>
    /\ exit = -1
    /\ inspected = NotInspected

\* a call of DetectRuntimes(repoPath)
DetectRuntimesCall ==
    /\ pc = "start"
    /\ runtimes' = [called |-> TRUE, value |-> DetectRuntimes(markers)]
    /\ pc' = "done"
    /\ UNCHANGED <<rootName, fsys, fault, absOk, repos, err, visited, exit, inspected,
                   cmd, dryRun, skipConfig, fromDevice, deviceOk, registry, manifest,
                   midx, idx, counts, printed, gitCalls, earlier, cfgVars, regVars,
                   workspaceId, markers, procs>>

NextRuntimes == DetectRuntimesCall

SpecRuntimes == InitRuntimes /\ [][NextRuntimes]_vars

-----------------------------------------------------------------------------
(* device register run by two processes in the same workspace.  Each reads
   devices.yaml (LoadDeviceRegistry) and later writes it (Save); the reads
   and writes of the two come in any order, and procs.log keeps that order. *)

Procs == {1, 2}

\* a process that has not started: the serial of its machine and the name
\* it registers under
Invocation(serial, name) ==
    [pc |-> "start", serial |-> serial, name |-> name, held |-> <<>>,
     exit |-> -1, failure |-> ""]

\* the registries the race starts on
RaceFiles == {MissingFile, CorruptFile, DeviceFile(<<Device("S0", "old", "before")>>)}

InitRace ==
    /\ \E s1 \in Serials, s2 \in Serials, n1 \in DeviceNames, n2 \in DeviceNames :
          procs = [of |-> <<Invocation(s1, n1), Invocation(s2, n2)>>, log |-> <<>>]
    /\ devicesFile \in RaceFiles
    /\ machine = "S1"
    /\ configFile = TRUE
    /\ failure = ""
    /\ workspaceId = "u1"
    /\ DetectIdle
    /\ RunIdle
    /\ ConfigIdle
    /\ rootName = "ws"
    /\ fsys = NoRoot
    /\ fault = NoFault
    /\ absOk = TRUE
    /\ pc = "start"
    /\ repos = <<>>
    /\ err = FALSE
    /\ visited = <<>>
    /\ exit = -1
    /\ inspected = NotInspected

RaceFrame ==
    UNCHANGED <<rootName, fsys, fault, absOk, pc, repos, err, visited, exit, inspected,
                cmd, dryRun, skipConfig, fromDevice, deviceOk, registry, manifest,
                midx, idx, counts, printed, gitCalls, earlier, cfgVars, machine,
                configFile, failure, workspaceId, detVars>>

Logged(p, op) == Append(procs.log, [proc |-> p, op |-> op])

\* part_003 130-139: process p loads the registry and looks for its serial
RegisterLoad(p) ==
    /\ procs.of[p].pc = "start"
    /\ procs' =
          [of |-> [procs.of EXCEPT ![p] =
                     IF devicesFile.state = "corrupt"
                     THEN [@ EXCEPT !.pc = "done", !.exit = 1,
                                    !.failure = "failed to load device registry"]
                     ELSE IF FindDevice(devicesFile.Devices, @.serial) # 0
                     THEN [@ EXCEPT !.pc = "done", !.exit = 1,
                                    !.failure = "device already registered"]
                     ELSE [@ EXCEPT !.pc = "loaded", !.held = devicesFile.Devices]],
           log |-> Logged(p, "load")]
    /\ UNCHANGED devicesFile
    /\ RaceFrame

SavedRegistry_Reloaded(held, file, d) == DeviceFile(Append(file.Devices, d))

\* part_003 147-150: the registry process p holds, with its device added,
\* as Save marshals it; file is devices.yaml as it is by then
SavedRegistry(held, file, d) == DeviceFile(Append(held, d))

\* part_003 147-163: process p adds its device and saves; o is how the
\* write goes, made whether the workspace-config directory could be made
RegisterSave(p) ==
    /\ procs.of[p].pc = "loaded"
    /\ \E o \in SaveResults, made \in BOOLEAN :
          /\ devicesFile' =
                Saved(devicesFile,
                      SavedRegistry(procs.of[p].held, devicesFile,
                                    Device(procs.of[p].serial, procs.of[p].name, "never")),
                      o)
          /\ procs' =
                [of |-> [procs.of EXCEPT ![p] =
                           [@ EXCEPT !.pc = "done",
                                     !.exit = IF o = "written" /\ made THEN 0 ELSE 1,
                                     !.failure =
                                        IF o # "written"
                                        THEN "failed to save device registry"
                                        ELSE IF ~made
                                        THEN "failed to create workspace-config directory"
                                        ELSE ""]],
                 log |-> Logged(p, "save")]
    /\ RaceFrame

NextRace == \E p \in Procs : RegisterLoad(p) \/ RegisterSave(p)

SpecRace == InitRace /\ [][NextRace]_vars

-----------------------------------------------------------------------------
(* Properties of the scan. *)

Scanned == pc \in {"scanned", "listed"}

IsPrefix(p, x) == Len(p) <= Len(x) /\ SubSeq(x, 1, Len(p)) = p

IsProperPrefix(p, x) == Len(p) < Len(x) /\ SubSeq(x, 1, Len(p)) = p

Prefixes(x) == {SubSeq(x, 1, n) : n \in 0..Len(x)}

HoldsGitDir(fs, p) == Stat(fs, p).kind = "dir" /\ Stat(fs, p).git = "dir"

Skipped(name) == HasDotPrefix(name) \/ InSkipDirs(name)

\* the records of the result whose path is D
RecordsOf(D) == {i \in 1..Len(repos) : repos[i].Path = D}

\* D holds a .git directory, nothing from the root down to D is hidden or on
\* the skip list, and nothing above D holds a .git directory
Eligible(D) ==
    /\ HoldsGitDir(fsys, D)
    /\ \A P \in Prefixes(D) : ~Skipped(Base(rootName, P))
    /\ \A P \in Prefixes(D) : P # D => ~HoldsGitDir(fsys, P)

\* C1 (as claimed): on a tree without failures, whatever regular files it
\* holds, the scan emits exactly one record for every directory that holds a
\* .git directory, is not below another such directory, and has no hidden or
\* skip-listed directory on its path from the root.
C1_OneRecordPerRepository ==
    (Scanned /\ absOk /\ fault = NoFault)
        => \A D \in DOMAIN fsys : Eligible(D) => Cardinality(RecordsOf(D)) = 1

\* C2: the scan never emits a repository beneath another emitted one, and the
\* walk visits nothing below a directory that holds a .git directory.
C2_NoNestedRepository ==
    Scanned =>
        /\ \A i, j \in 1..Len(repos) : ~IsProperPrefix(repos[i].Path, repos[j].Path)
        /\ \A k \in 1..Len(visited) : \A P \in Prefixes(visited[k]) :
               P # visited[k] => ~HoldsGitDir(fsys, P)

\* a repository below the root was emitted, and another .git directory lies
\* beneath it
C2_Witness ==
    /\ Scanned /\ fault = NoFault
    /\ \E i \in 1..Len(repos) : \E D \in DOMAIN fsys :
          /\ repos[i].Path # <<>>
          /\ IsProperPrefix(repos[i].Path, D) /\ HoldsGitDir(fsys, D)

\* C3: no emitted repository has a hidden or skip-listed directory on its
\* path below the root, also when that directory itself holds .git.
C3_NoSkippedDirectoryOnPath ==
    Scanned =>
        \A i \in 1..Len(repos) : \A k \in 1..Len(repos[i].Path) :
            ~Skipped(repos[i].Path[k])

\* a skip-listed directory holding .git under a plain directory that is no
\* repository, next to a hidden directory holding .git, all of it scanned
C3_Witness ==
    /\ Scanned /\ ~err /\ fault = NoFault
    /\ \E D \in DOMAIN fsys :
          /\ Len(D) = 2 /\ D[2] = "vendor" /\ ~Skipped(D[1])
          /\ HoldsGitDir(fsys, D) /\ ~HoldsGitDir(fsys, <<D[1]>>)
          /\ ~HoldsGitDir(fsys, <<>>) /\ ~Skipped(rootName)
          /\ <<D[1]>> \in {visited[k] : k \in 1..Len(visited)}

RootIsDir == Stat(fsys, <<>>).kind = "dir"

\* C4 (as claimed): the scan returns an error and no repository when the root
\* does not exist or is not a directory, and no failure below the root makes
\* it return an error.
C4_ErrorIffRootFailure ==
    Scanned =>
        /\ ~RootIsDir => (err /\ repos = <<>>)
        /\ (RootIsDir /\ absOk /\ fault.path # <<>>) => ~err

\* the scan of the same tree without the failure
WithoutFault == ScanForRepos([World EXCEPT !.fault = NoFault])

InSeq(x, s) == \E i \in 1..Len(s) : s[i] = x

ReadFailedBelowRoot ==
    /\ Scanned /\ absOk /\ RootIsDir
    /\ fault.kind \in {"readdir", "lstat"}
    /\ fault.path # <<>>

\* C5: when reading one directory below the root fails, nothing at or below
\* it is emitted, the scan returns no error, and every repository outside it
\* that the scan emits without the failure is emitted all the same.
C5_ReadFailureIsLocal ==
    ReadFailedBelowRoot =>
        /\ ~err
        /\ \A i \in 1..Len(repos) : ~IsPrefix(fault.path, repos[i].Path)
        /\ \A i \in 1..Len(WithoutFault.repos) :
               ~IsPrefix(fault.path, WithoutFault.repos[i].Path)
                   => InSeq(WithoutFault.repos[i], repos)

\* a directory with a repository in it could not be read, and a repository
\* outside it was emitted
C5_Witness ==
    /\ ReadFailedBelowRoot
    /\ fault.kind = "readdir"
    /\ \E i \in 1..Len(WithoutFault.repos) :
          IsPrefix(fault.path, WithoutFault.repos[i].Path)
    /\ repos # <<>>

-----------------------------------------------------------------------------
(* Properties of GetRepoInfo. *)

\* D has an entry named .git that is a directory
HasMarker == Stat(fsys, <<".git">>).kind = "dir"

\* what git does for a query in D
Raw(x) == Stat(fsys, <<>>).q[x]

\* C6: GetRepoInfo(D) succeeds exactly when D has an entry .git that is a
\* directory; otherwise it returns the not-a-repository error and no record,
\* whatever else D holds and whatever the git queries would answer.
C6_MarkerDecides ==
    pc = "inspected" =>
        /\ (inspected.err = "nil") <=> HasMarker
        /\ ~HasMarker =>
               inspected = [err |-> "not a git repository", info |-> NilInfo]

\* D holds a regular file .git and another repository, every query succeeds
\* in it, and GetRepoInfo refused it
C6_Witness ==
    /\ pc = "inspected"
    /\ Stat(fsys, <<".git">>).kind = "file"
    /\ HoldsGitDir(fsys, <<"a">>)
    /\ \A x \in QuerySet : Raw(x).ok
    /\ inspected.err = "not a git repository"

\* the field of the record a query fills
TextField(info, x) ==
    CASE x = "url" -> info.URL
      [] x = "branch" -> info.Branch
      [] x = "hash" -> info.LastCommit.Hash
      [] x = "author" -> info.LastCommit.Author
      [] x = "subject" -> info.LastCommit.Message

TextQueries == {"url", "branch", "hash", "author", "subject"}

\* C7: whichever of the seven queries fail, GetRepoInfo returns a record and
\* no error; the fields of a failed query hold their zero value, those of a
\* successful one hold its trimmed output, and a date that does not parse
\* leaves the timestamp zero.
C7_QueriesAreIndependent ==
    (pc = "inspected" /\ HasMarker) =>
        /\ inspected.err = "nil"
        /\ \A x \in TextQueries :
              /\ ~Raw(x).ok => TextField(inspected.info, x) = <<>>
              /\ Raw(x).ok =>
                    /\ TextField(inspected.info, x) = TrimSpace(Raw(x).out)
                    /\ TextField(inspected.info, x) # <<>>
        /\ inspected.info.HasRemote = Raw("url").ok
        /\ ~Raw("branch").ok => ~inspected.info.IsDetached
        /\ ~Raw("status").ok => ~inspected.info.HasChanges
        /\ Raw("status").ok =>
              (inspected.info.HasChanges <=> TrimSpace(Raw("status").out) # <<>>)
        /\ (Raw("date").ok /\ ParseTime(TrimSpace(Raw("date").out)).ok)
              => inspected.info.LastCommit.Date = GoodDate
        /\ ~(Raw("date").ok /\ ParseTime(TrimSpace(Raw("date").out)).ok)
              => inspected.info.LastCommit.Date = ZeroTime

\* some queries failed (one of them after writing output), the date did not
\* parse, and the record came back with the rest filled in
C7_Witness ==
    /\ pc = "inspected" /\ HasMarker
    /\ ~Raw("url").ok
    /\ Raw("branch") = FailWith(<<"HEAD", "\n">>)
    /\ Raw("hash").ok
    /\ ~Raw("author").ok
    /\ Raw("date") = Ok(<<"yesterday", "\n">>)
    /\ Raw("subject").ok
    /\ Raw("status") = NoRemoteDirty.status
    /\ inspected.err = "nil"
    /\ inspected.info.LastCommit.Hash = <<"abc1234">>
    /\ inspected.info.HasChanges

-----------------------------------------------------------------------------
(* Properties of a scan with one candidate in trouble. *)

\* the candidates: the directories of the workspace that hold a .git directory
Candidates == {n \in ListNames : HoldsGitDir(fsys, <<n>>)}

\* the candidate whose inspection fails
Lost(n) == fault = [kind |-> "gitgone", path |-> <<n>>]

\* the candidates all of whose queries succeed
Sound(n) == \A x \in QuerySet : Stat(fsys, <<n>>).q[x].ok

\* the record of a candidate with nothing wrong, every field filled in
FullRecord(n) ==
    [Name    |-> n,
     Path    |-> <<n>>,
     AbsPath |-> <<"/", "ws", n>>,
     URL     |-> <<"https://x/a.git">>,
     Branch  |-> IF Stat(fsys, <<n>>).q = Detached THEN <<"HEAD">> ELSE <<"main">>,
     LastCommit |-> [Hash |-> <<"abc1234">>, Author |-> <<"Ann Lee">>,
                     Date |-> GoodDate, Message |-> <<"fix", " ", "walk">>],
     HasChanges |-> FALSE,
     IsDetached |-> Stat(fsys, <<n>>).q = Detached,
     HasRemote  |-> TRUE]

\* C8: with one candidate whose queries fail or whose inspection fails, the
\* scan returns no error, holds the full record of every other candidate and
\* one record of the candidate with failing queries, leaves out the candidate
\* GetRepoInfo refused, and `repo list` ends with exit code 0.
C8_OneBadCandidateIsLocal ==
    (pc \in {"scanned", "listed"} /\ rootName = "ws") =>
        /\ ~err
        /\ pc = "listed" => exit = 0
        /\ \A n \in Candidates :
              /\ Lost(n) => RecordsOf(<<n>>) = {}
              /\ ~Lost(n) => Cardinality(RecordsOf(<<n>>)) = 1
              /\ (~Lost(n) /\ Sound(n)) => repos[CHOOSE i \in RecordsOf(<<n>>) : TRUE] = FullRecord(n)
        /\ Len(repos) = Cardinality({n \in Candidates : ~Lost(n)})

\* three candidates, GetRepoInfo refused the middle one, the command listed
\* the other two
C8_Witness ==
    /\ pc = "listed"
    /\ Candidates = ListNames
    /\ Lost("m")
    /\ Len(repos) = 2
    /\ repos[1] = FullRecord("a")
    /\ repos[2] = FullRecord("z")
    /\ exit = 0

\* three candidates, every query failed in the first one, the other two are
\* listed in full
C8_WitnessQueries ==
    /\ pc = "listed"
    /\ Candidates = ListNames
    /\ Stat(fsys, <<"a">>).q = Corrupt
    /\ Len(repos) = 3
    /\ repos[2] = FullRecord("m")
    /\ repos[3] = FullRecord("z")
    /\ exit = 0

-----------------------------------------------------------------------------
(* Properties of push and pull. *)

\* the lines the loop over the repositories printed about the one named n
IsLoopLine(l) == l.tag \in {"SKIP", "PUSH", "PULL"} \/ (l.tag = "DRY" /\ l.note # "Would clone")

LinesOf(n) == SelectSeq(printed, LAMBDA l : IsLoopLine(l) /\ l.name = n)

\* the git push and git pull processes started in the repository
CallsFor(repo) ==
    {k \in 1..Len(gitCalls) :
        gitCalls[k].op \in {"push", "pull"} /\ gitCalls[k].dir = repo.AbsPath}

\* the repositories the loop is done with
Processed == {i \in 1..Len(repos) : i < idx}

\* C9: in push and in pull, dry-run or not, a repository without a remote is
\* reported skipped as "no remote" whatever else holds of it, one with a
\* remote and a detached HEAD is reported skipped as "detached HEAD", and
\* git push or git pull is never started in either.
C9_SkipReasons ==
    cmd \in {"push", "pull"} =>
        \A i \in 1..Len(repos) :
            /\ (~repos[i].HasRemote \/ repos[i].IsDetached) => CallsFor(repos[i]) = {}
            /\ (i \in Processed /\ ~repos[i].HasRemote) =>
                   LinesOf(repos[i].Name) = <<Line("SKIP", repos[i].Name, "no remote")>>
            /\ (i \in Processed /\ repos[i].HasRemote /\ repos[i].IsDetached) =>
                   LinesOf(repos[i].Name) = <<Line("SKIP", repos[i].Name, "detached HEAD")>>

\* a real push is over: the first repository, detached, changed and without
\* a remote, was skipped for its missing remote, the second for its detached
\* HEAD, and the third was pushed
C9_Witness ==
    /\ pc = "done" /\ cmd = "push" /\ ~dryRun
    /\ Len(repos) = 3
    /\ ~repos[1].HasRemote /\ repos[1].IsDetached /\ repos[1].HasChanges
    /\ repos[2].HasRemote /\ repos[2].IsDetached
    /\ LinesOf("a") = <<Line("SKIP", "a", "no remote")>>
    /\ LinesOf("m") = <<Line("SKIP", "m", "detached HEAD")>>
    /\ gitCalls = <<[op |-> "push", dir |-> repos[3].AbsPath]>>

\* the same in a dry run of pull
C9_WitnessDryPull ==
    /\ pc = "done" /\ cmd = "pull" /\ dryRun
    /\ Len(repos) = 3
    /\ ~repos[1].HasRemote /\ repos[1].IsDetached
    /\ repos[2].HasRemote /\ repos[2].IsDetached
    /\ LinesOf("a") = <<Line("SKIP", "a", "no remote")>>
    /\ LinesOf("m") = <<Line("SKIP", "m", "detached HEAD")>>
    /\ LinesOf("z") = <<Line("DRY", "z", "would pull")>>
    /\ gitCalls = <<>>

\* a push that is not a dry run
RealPush == cmd = "push" /\ ~dryRun

\* every repository the loop is done with has one outcome and no other has
\* any, no repository saw more than one git push, and the counters add up to
\* the repositories done
C10_Outcomes ==
    RealPush =>
        /\ \A i \in 1..Len(repos) :
              /\ Len(LinesOf(repos[i].Name)) = IF i \in Processed THEN 1 ELSE 0
              /\ \A k \in 1..Len(LinesOf(repos[i].Name)) :
                    LinesOf(repos[i].Name)[k].tag \in {"SKIP", "PUSH"}
              /\ Cardinality(CallsFor(repos[i])) <= 1
        /\ counts.pushedCount + counts.skippedCount + counts.errorCount
               = Cardinality(Processed)
        /\ counts.errorCount
               = Cardinality({k \in 1..Len(printed) : printed[k] \in
                     {Line("PUSH", repos[i].Name, "FAILED") : i \in 1..Len(repos)}})

\* the push printed its summary after the last repository and returned nil
Summarised ==
    /\ pc = "done"
    /\ exit = 0
    /\ Cardinality(Processed) = Len(repos)
    /\ printed # <<>>
    /\ printed[Len(printed)].tag = "Summary"

\* C10: in a push that is not a dry run every scanned repository gets exactly
\* one outcome, git push is started at most once per repository, and once the
\* scan has returned the command goes through all repositories, failed
\* pushes or not, prints its summary and returns success with
\* pushed + skipped + errors equal to the number of repositories.
C10_EveryRepositoryOnce ==
    /\ [](C10_Outcomes)
    /\ (RealPush /\ pc \in {"loop", "finish"}) ~> (RealPush /\ Summarised)

\* a real push over three repositories is over: the first push failed, the
\* other two went through
C10_Witness ==
    /\ RealPush /\ Summarised
    /\ Len(repos) = 3
    /\ LinesOf("a") = <<Line("PUSH", "a", "FAILED")>>
    /\ LinesOf("m") = <<Line("PUSH", "m", "OK")>>
    /\ LinesOf("z") = <<Line("PUSH", "z", "OK")>>
    /\ Len(gitCalls) = 3
    /\ counts.errorCount = 1 /\ counts.pushedCount = 2

-----------------------------------------------------------------------------
(* Properties of the dry run and of the summaries. *)

\* the numbers of the summary the command printed last
SummaryCounts == printed[Len(printed)].counts

\* the summary shows the number n under the label
Shows(label, n) == \E k \in 1..Len(SummaryCounts) : SummaryCounts[k] = <<label, n>>

\* the number the summary shows as errors: the line is left out for none
ShownErrors ==
    IF \E k \in 1..Len(SummaryCounts) : SummaryCounts[k][1] = "Errors"
    THEN (CHOOSE c \in {SummaryCounts[k] : k \in 1..Len(SummaryCounts)} : c[1] = "Errors")[2]
    ELSE 0

\* the command ran to its summary
Ended(c) == cmd = c /\ pc = "done" /\ exit = 0 /\ printed # <<>>
               /\ printed[Len(printed)].tag = "Summary"

\* the workspace holds one repository, clean, with a remote, on a branch
OnlyCleanRepo ==
    /\ Len(repos) = 1
    /\ repos[1].HasRemote /\ ~repos[1].IsDetached /\ ~repos[1].HasChanges

\* C11: push --dry-run over a workspace whose only repository is clean, has
\* a remote and is on a branch reports it as "would push" and prints a
\* summary with pushed 0, skipped 0, errors 0.
C11_DryRunWouldPush ==
    (Ended("push") /\ dryRun /\ OnlyCleanRepo) =>
        /\ LinesOf(repos[1].Name) = <<Line("DRY", repos[1].Name, "would push")>>
        /\ Shows("Pushed", 0) /\ Shows("Skipped", 0) /\ ShownErrors = 0

\* what a run's lines say would be done, as (action, repository) pairs
WouldAct(lines) ==
    {<<"push", lines[k].name>> :
        k \in {j \in 1..Len(lines) : lines[j].tag = "DRY" /\ lines[j].note = "would push"}}
    \cup {<<"pull", lines[k].name>> :
        k \in {j \in 1..Len(lines) : lines[j].tag = "DRY" /\ lines[j].note = "would pull"}}
    \cup {<<"clone", lines[k].name>> :
        k \in {j \in 1..Len(lines) :
                  lines[j].tag = "DRY" /\ lines[j].note \in {"Would clone", "clone"}}}

\* what a run's lines say was attempted
Attempted(lines) ==
    {<<"push", lines[k].name>> : k \in {j \in 1..Len(lines) : lines[j].tag = "PUSH"}}
    \cup {<<"pull", lines[k].name>> : k \in {j \in 1..Len(lines) : lines[j].tag = "PULL"}}
    \cup {<<"clone", lines[k].name>> : k \in {j \in 1..Len(lines) : lines[j].tag = "CLONE"}}

\* the repositories a run skipped, each with the reason given
SkippedAs(lines) ==
    {<<lines[k].name, lines[k].note>> : k \in {j \in 1..Len(lines) : lines[j].tag = "SKIP"}}

\* a dry run has ended, and after it a real run of the same command
DryThenReal ==
    /\ pc = "done" /\ exit = 0
    /\ cmd \in {"clone", "push", "pull"}
    /\ ~dryRun
    /\ earlier # <<>>
    /\ earlier[1].dryRun /\ earlier[1].exit = 0

\* C12: for clone, push and pull from the same state, the repositories the
\* dry run reports as would-be acted on are those the real run attempts the
\* action on, and both runs skip the same repositories for the same reasons.
C12_DryRunDecidesAsRealRun ==
    DryThenReal =>
        /\ WouldAct(earlier[1].printed) = Attempted(printed)
        /\ SkippedAs(earlier[1].printed) = SkippedAs(printed)

\* C13: with --dry-run, clone, push and pull start no git clone, git push,
\* git pull or rsync process, leave the tree as it is, and do not rewrite the
\* device registry (lastSync keeps its value) or the manifest.
C13_DryRunChangesNothing ==
    [][dryRun => /\ gitCalls' = <<>>
                 /\ fsys' = fsys
                 /\ registry' = registry
                 /\ devicesFile' = devicesFile
                 /\ manifest' = manifest]_vars

\* a dry pull ended that listed a clone and a pull, with the configuration of
\* another device asked for and this device in the registry
C13_Witness ==
    /\ Ended("pull") /\ dryRun
    /\ ~skipConfig /\ fromDevice # ""
    /\ registry.loaded /\ registry.known
    /\ \E i, j \in 1..Len(printed) :
          /\ printed[i].tag = "DRY" /\ printed[i].note = "Would clone"
          /\ printed[j].tag = "DRY" /\ printed[j].note = "would pull"

\* the same for push and for clone
C13_WitnessPushClone ==
    \/ /\ Ended("push") /\ dryRun /\ ~skipConfig /\ registry.known
       /\ \E i \in 1..Len(printed) : printed[i].tag = "DRY" /\ printed[i].note = "would push"
    \/ /\ Ended("clone") /\ dryRun
       /\ \E i \in 1..Len(printed) : printed[i].tag = "DRY" /\ printed[i].note = "clone"

\* the local path of the manifest entry the clone loop is at exists
PathExists == Stat(fsys, ClonePath(manifest.Repositories[midx])).kind # "absent"

\* C14: in clone, git clone is attempted for an entry exactly when its local
\* path (Path, or Name without one) does not exist and its URL is not empty;
\* an entry whose path exists is skipped as "already exists", one whose path
\* is absent and whose URL is empty as "no URL", and the command goes on.
C14_CloneDecision ==
    [][(pc = "clone") =>
          LET e == manifest.Repositories[midx] IN
          /\ ~dryRun => ((gitCalls' # gitCalls) <=> (~PathExists /\ e.URL # ""))
          /\ PathExists =>
                printed' = Append(printed, Line("SKIP", e.Name, "already exists"))
          /\ (~PathExists /\ e.URL = "") =>
                printed' = Append(printed, Line("SKIP", e.Name, "no URL"))
          /\ exit' = exit]_vars

\* how many printed lines carry the tag, with the note when one is asked for
Count(tag, notes) ==
    Cardinality({k \in 1..Len(printed) : printed[k].tag = tag /\ printed[k].note \in notes})

\* the number of cloned repositories pull reported
ReportedCloned ==
    IF \E k \in 1..Len(printed) : printed[k].tag = "Cloned"
    THEN (CHOOSE l \in {printed[k] : k \in 1..Len(printed)} : l.tag = "Cloned").counts[1][2]
    ELSE 0

\* the reasons a repository is skipped for
SkipNotes == {"no remote", "detached HEAD", "already exists", "no URL"}

\* C15: the summary of clone, push and pull is exact: the success count is
\* the number of actions that succeeded, the skipped count the number of
\* repositories skipped, the error count the number of actions that failed,
\* for pull the failed clones of its first phase included; and the number of
\* cloned repositories pull reports is the number of clones that succeeded.
C15_SummaryCountsExact ==
    /\ Ended("push") =>
          /\ Shows("Pushed", Count("PUSH", {"OK"}))
          /\ Shows("Skipped", Count("SKIP", SkipNotes))
          /\ ShownErrors = Count("PUSH", {"FAILED"})
    /\ Ended("clone") =>
          /\ Shows("Cloned", Count("CLONE", {"OK"}))
          /\ Shows("Skipped", Count("SKIP", SkipNotes))
          /\ ShownErrors = Count("CLONE", {"FAILED"})
    /\ Ended("pull") =>
          /\ Shows("Pulled", Count("PULL", {"OK"}))
          /\ Shows("Skipped", Count("SKIP", SkipNotes))
          /\ ShownErrors = Count("PULL", {"FAILED"}) + Count("CLONE", {"FAILED"})
          /\ ReportedCloned = Count("CLONE", {"OK"})

\* the same for push and clone alone
C15_PushAndClone ==
    /\ Ended("push") =>
          /\ Shows("Pushed", Count("PUSH", {"OK"}))
          /\ Shows("Skipped", Count("SKIP", SkipNotes))
          /\ ShownErrors = Count("PUSH", {"FAILED"})
    /\ Ended("clone") =>
          /\ Shows("Cloned", Count("CLONE", {"OK"}))
          /\ Shows("Skipped", Count("SKIP", SkipNotes))
          /\ ShownErrors = Count("CLONE", {"FAILED"})

\* pull without the failed clones and the reported number of clones
C15_PullLoopOnly ==
    Ended("pull") =>
          /\ Shows("Pulled", Count("PULL", {"OK"}))
          /\ Shows("Skipped", Count("SKIP", SkipNotes))
          /\ ShownErrors = Count("PULL", {"FAILED"})

\* a real pull reports the clones that succeeded
C15_RealPullClones == (Ended("pull") /\ ~dryRun) => ReportedCloned = Count("CLONE", {"OK"})

-----------------------------------------------------------------------------
(* Properties of pull's two phases. *)

\* the paths git clone was started for
ClonedPaths == {gitCalls[k].dir : k \in {j \in 1..Len(gitCalls) : gitCalls[j].op = "clone"}}

\* pull is past its clone phase
PastClonePhase == pc \in {"scan", "loop", "finish"} \/ (pc = "done" /\ exit = 0)

\* pull has its scan result
PastScan == pc \in {"loop", "finish"} \/ (pc = "done" /\ exit = 0)

\* the record of the scan is treated as the loop treats every repository
TreatedAsAny(i) ==
    IF ~repos[i].HasRemote
    THEN LinesOf(repos[i].Name) = <<Line("SKIP", repos[i].Name, "no remote")>>
         /\ CallsFor(repos[i]) = {}
    ELSE IF repos[i].IsDetached
    THEN LinesOf(repos[i].Name) = <<Line("SKIP", repos[i].Name, "detached HEAD")>>
         /\ CallsFor(repos[i]) = {}
    ELSE /\ Cardinality(CallsFor(repos[i])) = 1
         /\ Len(LinesOf(repos[i].Name)) = 1
         /\ LinesOf(repos[i].Name)[1].tag = "PULL"

\* C16: in a pull without --dry-run, every manifest entry with a URL whose
\* path is absent has had its git clone started before the scan starts and
\* no clone is started after it; a repository a clone has made, not inside
\* a hidden or skip-listed directory nor inside another repository, has
\* exactly one record in the scan result and goes through the loop like any
\* other: skipped without a remote or with a detached HEAD, pulled otherwise.
C16_ClonesBeforeScan ==
    (cmd = "pull" /\ ~dryRun) =>
        /\ pc \in {"start", "cloning"} =>
              repos = <<>> /\ \A k \in 1..Len(gitCalls) : gitCalls[k].op = "clone"
        /\ \A i, j \in 1..Len(gitCalls) :
              (gitCalls[i].op = "clone" /\ gitCalls[j].op # "clone") => i < j
        /\ (PastClonePhase /\ manifest.loaded) =>
              \A k \in 1..Len(manifest.Repositories) :
                 LET e == manifest.Repositories[k] IN
                 (e.URL # "" /\ Stat(fsys, ClonePath(e)).kind = "absent")
                     => ClonePath(e) \in ClonedPaths
        /\ PastScan =>
              \A D \in ClonedPaths :
                 Eligible(D) =>
                    /\ Cardinality(RecordsOf(D)) = 1
                    /\ \A i \in RecordsOf(D) \cap Processed : TreatedAsAny(i)

\* a pull has ended that cloned two repositories, one left with a detached
\* HEAD, beside a repository that was there, and pulled the other two
C16_Witness ==
    /\ Ended("pull") /\ ~dryRun
    /\ Cardinality(ClonedPaths) = 2
    /\ \A D \in ClonedPaths : Eligible(D)
    /\ Len(repos) = 3
    /\ \E D \in ClonedPaths : \E i \in RecordsOf(D) : repos[i].IsDetached
    /\ Count("PULL", {"OK", "FAILED"}) = 2

-----------------------------------------------------------------------------
(* Properties of the manifest. *)

\* the entries of a manifest as a set
EntrySet(mf) == {mf.Repositories[k] : k \in 1..Len(mf.Repositories)}

\* `repo scan` has run twice, and saved the manifest both times
ScannedTwice ==
    /\ cmd = "repo scan" /\ pc = "done" /\ exit = 0
    /\ earlier # <<>> /\ earlier[1].exit = 0

\* C17: `repo scan` run twice in a row, nothing else touching the tree in
\* between, saves manifests whose Repositories are equal as sets of (name,
\* path, url, branch) entries, and whose Generated timestamps differ.
C17_RescanSameRepositories ==
    ScannedTwice =>
        /\ EntrySet(manifest) = EntrySet(earlier[1].manifest)
        /\ manifest.Generated # earlier[1].manifest.Generated

\* two scans that registered two repositories, one of them without a remote
C17_Witness ==
    /\ ScannedTwice
    /\ Cardinality(EntrySet(manifest)) = 2
    /\ \E e \in EntrySet(manifest) : e.URL = ""

-----------------------------------------------------------------------------
(* Properties of the exclude patterns.  What a pattern matches is stated
   here by its grammar: a pattern is a sequence of terms, and a name matches
   when it splits into pieces the terms accept one by one. *)

BadTerm == [kind |-> "bad", c |-> "", negated |-> FALSE, ranges |-> {}]

Star == [kind |-> "star", c |-> "", negated |-> FALSE, ranges |-> {}]

AnyOne == [kind |-> "any", c |-> "", negated |-> FALSE, ranges |-> {}]

Literal(c) == [kind |-> "lit", c |-> c, negated |-> FALSE, ranges |-> {}]

RECURSIVE RangesOf(_, _)
\* the character ranges of a class up to its closing bracket: what they are
\* and what follows, or "bad"
RangesOf(q, acc) ==
    IF q = <<>> THEN [bad |-> TRUE, ranges |-> {}, rest |-> <<>>]
    ELSE IF q[1] = "]"
    THEN [bad |-> acc = {}, ranges |-> acc, rest |-> Tail(q)]
    ELSE LET esc == q[1] = "\\"
             body == IF esc THEN Tail(q) ELSE q
         IN
         IF q[1] = "-" \/ body = <<>> THEN [bad |-> TRUE, ranges |-> {}, rest |-> <<>>]
         ELSE LET lo == body[1]
                  after == Tail(body)
              IN
              IF after # <<>> /\ after[1] = "-"
              THEN LET h == Tail(after)
                       hesc == h # <<>> /\ h[1] = "\\"
                       hbody == IF hesc THEN Tail(h) ELSE h
                   IN IF h = <<>> \/ h[1] \in {"-", "]"} \/ hbody = <<>>
                      THEN [bad |-> TRUE, ranges |-> {}, rest |-> <<>>]
                      ELSE RangesOf(Tail(hbody), acc \cup {<<lo, hbody[1]>>})
              ELSE RangesOf(after, acc \cup {<<lo, lo>>})

RECURSIVE Terms(_)
\* the terms of a pattern
Terms(p) ==
    IF p = <<>> THEN <<>>
    ELSE IF p[1] = "*" THEN <<Star>> \o Terms(Tail(p))
    ELSE IF p[1] = "?" THEN <<AnyOne>> \o Terms(Tail(p))
    ELSE IF p[1] = "\\"
    THEN IF Len(p) = 1 THEN <<BadTerm>> ELSE <<Literal(p[2])>> \o Terms(Tail(Tail(p)))
    ELSE IF p[1] = "["
    THEN LET negated == Len(p) > 1 /\ p[2] = "^"
             cl == RangesOf(IF negated THEN Tail(Tail(p)) ELSE Tail(p), {})
         IN IF cl.bad THEN <<BadTerm>>
            ELSE <<[kind |-> "class", c |-> "", negated |-> negated, ranges |-> cl.ranges]>>
                     \o Terms(cl.rest)
    ELSE <<Literal(p[1])>> \o Terms(Tail(p))

\* a term that stands for one character accepts c
Accepts(term, c) ==
    CASE term.kind = "any" -> TRUE
      [] term.kind = "lit" -> c = term.c
      [] term.kind = "class" ->
            (\E r \in term.ranges : Code(r[1]) <= Code(c) /\ Code(c) <= Code(r[2]))
                # term.negated
      [] OTHER -> FALSE

RECURSIVE Denotes(_, _)
\* the name is in the language of the terms
Denotes(terms, name) ==
    IF terms = <<>> THEN name = <<>>
    ELSE IF terms[1].kind = "star"
    THEN \E k \in 0..Len(name) : Denotes(Tail(terms), SubSeq(name, k + 1, Len(name)))
    ELSE /\ name # <<>>
         /\ Accepts(terms[1], name[1])
         /\ Denotes(Tail(terms), Tail(name))

\* the pattern is a valid glob and matches the name
GlobMatches(p, name) ==
    /\ \A k \in 1..Len(Terms(p)) : Terms(p)[k].kind # "bad"
    /\ Denotes(Terms(p), name)

ValidGlob(p) == \A k \in 1..Len(Terms(p)) : Terms(p)[k].kind # "bad"

\* C18: Config.IsExcluded(name) is true exactly when some pattern of
\* repos.exclude glob-matches the name or is equal to it as a string: with
\* temp-* the name temp-foo is excluded and archive is not, with archive
\* the name archive is excluded, and a pattern that is not a valid glob
\* still excludes the name equal to it.
C18_ExcludedIffMatchOrEqual ==
    excluded.called =>
        /\ excluded.value <=>
              \E k \in 1..Len(exclude) :
                 GlobMatches(exclude[k], repoName) \/ exclude[k] = repoName
        /\ (exclude = <<TempStar>> /\ repoName = TempFoo) => excluded.value
        /\ (exclude = <<TempStar>> /\ repoName = Archive) => ~excluded.value
        /\ (exclude = <<Archive>> /\ repoName = Archive) => excluded.value
        /\ (Len(exclude) = 1 /\ ~ValidGlob(exclude[1]) /\ repoName = exclude[1])
               => excluded.value

\* a name was asked about that is equal to the one pattern there is, and
\* that one is not a valid glob
C18_Witness ==
    /\ excluded.called /\ excluded.value
    /\ Len(exclude) = 1 /\ ~ValidGlob(exclude[1]) /\ repoName = exclude[1]

\* temp-* against temp-foo, and against archive
C18_WitnessTemp ==
    /\ excluded.called /\ exclude = <<TempStar>>
    /\ \/ repoName = TempFoo /\ excluded.value
       \/ repoName = Archive /\ ~excluded.value

\* the name of the scanned repository is excluded by repos.exclude
ExcludedRepo(i) == IsExcluded(exclude, Chars(repos[i].Name))

\* C19: a repository whose name matches a pattern of repos.exclude is
\* skipped by push and pull: git push and git pull are never started in it.
C19_ExcludedNeverSynced ==
    cmd \in {"push", "pull"} =>
        \A i \in 1..Len(repos) : ExcludedRepo(i) => CallsFor(repos[i]) = {}

-----------------------------------------------------------------------------
(* Properties of the device registry. *)

\* no two devices of .metarepo/devices.yaml have the same serial
UniqueSerials ==
    \A i, j \in 1..Len(devicesFile.Devices) :
        devicesFile.Devices[i].Serial = devicesFile.Devices[j].Serial => i = j

\* device register starts on a machine whose serial the registry holds
RegistersAgain ==
    /\ pc = "start" /\ cmd = "device register" /\ deviceOk
    /\ \E i \in 1..Len(devicesFile.Devices) : devicesFile.Devices[i].Serial = machine

\* C20: after any sequence of init, device register, push and pull run one
\* after the other, no two devices of the persisted registry share a serial;
\* and device register on a machine whose serial is in the registry fails
\* with the already-registered error and leaves the registry file as it is.
C20_SerialsStayUnique ==
    /\ []UniqueSerials
    /\ [][RegistersAgain =>
             /\ failure' = "device already registered"
             /\ exit' = 1
             /\ devicesFile' = devicesFile]_vars

\* two machines are registered, one by init and one by device register, a
\* push has stamped one of them, and a second device register was refused
C20_Witness ==
    /\ cmd = "device register" /\ pc = "done"
    /\ failure = "device already registered"
    /\ Len(devicesFile.Devices) = 2
    /\ \E i \in 1..2 : devicesFile.Devices[i].LastSync = "now"

-----------------------------------------------------------------------------
(* Properties of the workspace identifier. *)

\* C21 (as claimed): the workspace id of .metarepo/config.yaml, once
\* generated, never changes: no command, init with or without --force
\* included, replaces an identifier the file holds by another one.
C21_WorkspaceIdImmutable ==
    [][(workspaceId \in Uuids /\ workspaceId' \in Uuids)
          => (workspaceId' = workspaceId)]_vars

-----------------------------------------------------------------------------
(* Properties of the manifest's list. *)

UniqueNames(mf) ==
    \A i, j \in 1..Len(mf.Repositories) :
        mf.Repositories[i].Name = mf.Repositories[j].Name => i = j

\* C22 (as claimed): an invocation of `repo scan` or `repo add` that starts
\* with a manifest in which no two entries have the same name leaves one in
\* which none have, two repositories of the same base name in different
\* subdirectories included.
C22_NamesStayUnique ==
    [][(cmd \in {"repo scan", "repo add"} /\ UniqueNames(manifest))
          => UniqueNames(manifest')]_vars

-----------------------------------------------------------------------------
(* Properties of the commands that need the device. *)

DeviceCommands ==
    {"init", "push", "pull", "device info", "device register", "workspace info"}

\* C23: a command that needs the identity of the device, started on a
\* machine where the lookup of the hardware identifier fails, ends at once
\* with an error: it scans nothing, starts no git push, pull or clone, and
\* leaves config.yaml, manifest.yaml, devices.yaml and the tree as they are.
C23_NoDeviceNoEffect ==
    [][(pc = "start" /\ ~deviceOk /\ cmd \in DeviceCommands) =>
          /\ pc' = "done"
          /\ exit' = 1
          /\ failure' # "" \/ cmd \in {"push", "pull"}
          /\ repos' = <<>> /\ visited' = <<>> /\ gitCalls' = <<>>
          /\ UNCHANGED <<devicesFile, configFile, workspaceId, manifest, fsys>>]_vars

\* push ended with an error on a machine without hardware identifier, in a
\* workspace that init made
C23_Witness ==
    /\ cmd = "push" /\ pc = "done" /\ ~deviceOk /\ exit = 1
    /\ configFile /\ devicesFile.state = "ok" /\ Len(devicesFile.Devices) > 0

\* init --force, and workspace info, ended so in such a workspace
C23_WitnessInit ==
    /\ cmd \in {"init", "workspace info"} /\ pc = "done" /\ ~deviceOk
    /\ failure = "failed to get device info"
    /\ configFile /\ workspaceId \in Uuids

-----------------------------------------------------------------------------
(* Properties of DetectRuntimes. *)

Ecosystems == <<"python", "node", "go", "rust">>

\* the marker files of an ecosystem: the names its RuntimeInfo may list
MarkersOf(language) ==
    CASE language = "python" -> Range(PythonIndicators) \cup Range(venvPaths)
      [] language = "node" -> Range(NodeIndicators)
      [] language = "go" -> Range(GoFiles)
      [] language = "rust" -> Range(RustFiles)

Detected(language) ==
    \E i \in 1..Len(runtimes.value) : runtimes.value[i].Language = language

\* C24 (as claimed): DetectRuntimes returns at most one RuntimeInfo per
\* ecosystem, in the order python, node, go, rust; an ecosystem is in the
\* result if and only if one of its marker files is in the directory; every
\* RuntimeInfo lists at least one file; and where no file holds a version
\* every Version is empty and no entry is missing for that.
C24_DetectRuntimes ==
    runtimes.called =>
        /\ \E pick \in SUBSET Range(Ecosystems) :
              [i \in 1..Len(runtimes.value) |-> runtimes.value[i].Language]
                 = SelectSeq(Ecosystems, LAMBDA l : l \in pick)
        /\ \A k \in 1..4 :
              Detected(Ecosystems[k])
                 <=> (MarkersOf(Ecosystems[k]) \cap DOMAIN markers # {})
        /\ \A i \in 1..Len(runtimes.value) : runtimes.value[i].Files # <<>>
        /\ (\A n \in DOMAIN markers : markers[n] # "pin")
              => \A i \in 1..Len(runtimes.value) : runtimes.value[i].Version = ""

-----------------------------------------------------------------------------
(* Properties of the order of work in push and pull. *)

\* the loop of push or pull is past the i-th repository
Handled(i) == i < idx

\* GetRepoInfo has made its queries in the i-th repository
Queried(i) == i <= Len(repos)

\* C25 (as claimed): push and pull take the repositories one after the
\* other: the queries of a repository are made only when every repository
\* before it has been handled, its git push or git pull or skip included.
C25_OneRepositoryAtATime ==
    cmd \in {"push", "pull"} =>
        \A i \in 1..Len(repos) : \A j \in 1..(i - 1) : Queried(i) => Handled(j)

-----------------------------------------------------------------------------
(* Properties of the flags of a record. *)

\* C26: in every record GetRepoInfo returns, IsDetached is set exactly when
\* Branch is "HEAD"; HasRemote is set exactly when `git remote get-url
\* origin` succeeded, and URL is empty when it is not set; HasChanges is set
\* exactly when `git status --porcelain` succeeded and its output, trimmed,
\* is not empty.
C26_FlagsFollowFields ==
    (pc = "inspected" /\ inspected.err = "nil") =>
        /\ inspected.info.IsDetached <=> (inspected.info.Branch = <<"HEAD">>)
        /\ inspected.info.HasRemote <=> Raw("url").ok
        /\ ~inspected.info.HasRemote => inspected.info.URL = <<>>
        /\ inspected.info.HasChanges
              <=> (Raw("status").ok /\ TrimSpace(Raw("status").out) # <<>>)

\* a record of a repository with a detached HEAD, without remote, whose
\* status query printed a newline only
C26_Witness ==
    /\ pc = "inspected" /\ inspected.err = "nil"
    /\ inspected.info.IsDetached /\ ~inspected.info.HasRemote
    /\ Raw("status") = Ok(<<"\n">>) /\ ~inspected.info.HasChanges

\* a record without branch, the query having failed after printing HEAD,
\* with remote and with changes
C26_WitnessNoBranch ==
    /\ pc = "inspected" /\ inspected.err = "nil"
    /\ Raw("branch") = FailWith(<<"HEAD", "\n">>) /\ ~inspected.info.IsDetached
    /\ inspected.info.HasRemote /\ inspected.info.HasChanges

-----------------------------------------------------------------------------
(* Properties of what push and pull write to the registry. *)

\* a step of push or pull without --dry-run whose write, if it fails, does
\* not leave devices.yaml cut short
RealSyncStep ==
    /\ cmd \in {"push", "pull"} /\ ~dryRun /\ pc # "done"
    /\ devicesFile'.state = "corrupt" => devicesFile.state = "corrupt"

C27_WitnessStranger ==
    /\ cmd \in {"push", "pull"} /\ ~dryRun /\ pc = "done" /\ registry.saved
    /\ Len(devicesFile.Devices) = 1
    /\ FindDevice(devicesFile.Devices, machine) = 0
    /\ devicesFile.Devices[1].LastSync = "never"

-----------------------------------------------------------------------------
(* Properties of the manifest `repo scan` writes. *)

\* `repo scan` has ended and saved the manifest
ScanSaved == cmd = "repo scan" /\ pc = "done" /\ exit = 0

\* what git answers to a query in the i-th repository found, as one word
Answer(i, query) ==
    IF Stat(fsys, repos[i].Path).q[query].ok
    THEN Text(TrimSpace(Stat(fsys, repos[i].Path).q[query].out))
    ELSE ""

\* C28: after a successful `repo scan` the manifest lists the repositories
\* of the scan and nothing else: one entry each, in the order of the scan,
\* with the repository's name, path, URL and branch; what the manifest
\* listed before is gone.
C28_ScanReplacesManifest ==
    ScanSaved =>
        /\ Len(manifest.Repositories) = Len(repos)
        /\ \A i \in 1..Len(repos) :
              manifest.Repositories[i] =
                 [Name |-> Base(rootName, repos[i].Path),
                  Path |-> ManifestPath(repos[i].Path),
                  URL |-> Answer(i, "url"),
                  Branch |-> Answer(i, "branch")]

\* a scan that found two repositories, one inside a plain directory, in a
\* workspace whose manifest listed an entry the scan did not find
C28_Witness ==
    /\ ScanSaved
    /\ Len(repos) = 2
    /\ \E i \in 1..2 : manifest.Repositories[i].Path = "a/m"
    /\ earlier # <<>>
    /\ \E e \in EntrySet(earlier[1].manifest) : e \notin EntrySet(manifest)

-----------------------------------------------------------------------------
(* Properties of clone after a scan. *)

\* clone has ended, and the invocation before it in this working directory
\* was a `repo scan` that saved the manifest
ClonedAfterScan ==
    /\ cmd = "clone" /\ pc = "done"
    /\ earlier # <<>> /\ earlier[1].cmd = "repo scan" /\ earlier[1].exit = 0

\* C29: clone run right after a successful `repo scan`, in the same
\* directory and with nothing changed in between, starts no git clone and
\* skips every entry of the manifest as already there: as many skipped as
\* the manifest has entries, none cloned, no error.
C29_CloneAfterScanSkipsAll ==
    ClonedAfterScan =>
        /\ exit = 0
        /\ gitCalls = <<>>
        /\ counts.clonedCount = 0
        /\ counts.errorCount = 0
        /\ counts.skippedCount = Len(manifest.Repositories)
        /\ \A i \in 1..Len(manifest.Repositories) :
              printed[i] = Line("SKIP", manifest.Repositories[i].Name, "already exists")

\* such a clone in a working directory that holds a repository at a/m and
\* one without remote
C29_Witness ==
    /\ ClonedAfterScan
    /\ Len(manifest.Repositories) = 2
    /\ \E i \in 1..2 : manifest.Repositories[i].Path = "a/m"
    /\ \E i \in 1..2 : manifest.Repositories[i].URL = ""
    /\ counts.skippedCount = 2

\* such a clone in a working directory that is a repository itself
C29_WitnessRoot ==
    /\ ClonedAfterScan
    /\ Len(manifest.Repositories) = 1
    /\ manifest.Repositories[1].Path = "."
    /\ counts.skippedCount = 1

-----------------------------------------------------------------------------
(* Properties of two invocations that write the registry. *)

\* both processes have ended and reported success
BothRegistered ==
    \A p \in Procs : procs.of[p].pc = "done" /\ procs.of[p].exit = 0

\* the record process p registered is in devices.yaml
Persisted(p) ==
    \E i \in 1..Len(devicesFile.Devices) :
        devicesFile.Devices[i] = Device(procs.of[p].serial, procs.of[p].name, "never")

\* one process loaded and saved before the other loaded
OneAfterTheOther ==
    /\ Len(procs.log) = 4
    /\ procs.log[1].proc = procs.log[2].proc
    /\ procs.log[3].proc = procs.log[4].proc

\* both processes loaded before either saved
BothLoadedFirst ==
    Len(procs.log) = 4 /\ procs.log[1].op = "load" /\ procs.log[2].op = "load"

\* C30: of two device register invocations that both report success, run
\* one after the other, both records are in devices.yaml; when both loaded
\* the file before either saved it, devices.yaml is what the last one
\* wrote, the registry it had loaded and its own record, and the record of
\* the other one is not in it.
C30_LostUpdate ==
    BothRegistered =>
        /\ OneAfterTheOther => \A p \in Procs : Persisted(p)
        /\ BothLoadedFirst =>
              /\ devicesFile =
                    DeviceFile(Append(procs.of[procs.log[4].proc].held,
                                      Device(procs.of[procs.log[4].proc].serial,
                                             procs.of[procs.log[4].proc].name, "never")))
              /\ procs.of[1].held = procs.of[2].held
              /\ \A i \in 1..Len(devicesFile.Devices) :
                    devicesFile.Devices[i].Serial = procs.of[procs.log[3].proc].serial
                       => i = Len(devicesFile.Devices)

\* two machines of different serials raced, both reported success, and
\* only one of them is in the registry, after the device that was there
C30_Witness ==
    /\ BothRegistered /\ BothLoadedFirst
    /\ procs.of[1].serial # procs.of[2].serial
    /\ Len(devicesFile.Devices) = 2
    /\ \E p \in Procs : ~Persisted(p)

\* the two ran one after the other and both are in the registry
C30_WitnessInTurn ==
    /\ BothRegistered /\ OneAfterTheOther
    /\ Len(devicesFile.Devices) = 3
    /\ \A p \in Procs : Persisted(p)

====
